---- MODULE Spec2Model ----
(***************************************************************************)
(* Model of the VolSync handler (VSHandler) of ramen: the reconcile entry  *)
(* points ReconcileRD / ReconcileRS, PreparePVCForFinalSync and the        *)
(* helpers they call, run against a control plane whose every get, list,   *)
(* create, update and delete may fail.                                     *)
(*                                                                         *)
(* Every entry point is one action.  Its body is the composition of the    *)
(* helper operators below, each of which threads a "context" record        *)
(*     [w |-> the cluster objects, h |-> the handler, log |-> the API      *)
(*      operations issued so far, err |-> "" or the error]                 *)
(* through the API calls the Go code makes, in the order it makes them.    *)
(***************************************************************************)
EXTENDS Integers, Sequences, FiniteSets, TLC

\* ------------------------------------------------------------------------
\* Bounds of the model
\* ------------------------------------------------------------------------
\* how many pods may reference one claim
MaxPods == 1

\* ------------------------------------------------------------------------
\* Program constants
\* ------------------------------------------------------------------------
VolumeSnapshotKind == "VolumeSnapshot"
VRGOwnerLabel == "volumereplicationgroups-owner"
FinalSyncTriggerString == "vrg-final-sync"
SchedulingIntervalMinLength == 2
CronSpecMaxDayOfMonth == 28
ACMAppSubDoNotDeleteLabel == "do-not-delete"
ACMAppSubDoNotDeleteLabelVal == "true"
VolSyncDoNotDeleteLabel == "volsync.backube/do-not-delete"
VolSyncDoNotDeleteLabelVal == "true"
CopyMethodSnapshot == "Snapshot"
ReadWriteOnce == "ReadWriteOnce"
ReadWriteMany == "ReadWriteMany"
\* the schedule used when the handler has no scheduling interval
DefaultScheduleCronSpec == <<"*/10 * * * *">>

\* ------------------------------------------------------------------------
\* Universe: two owners (VRGs) in one namespace, the volumes they protect
\* ------------------------------------------------------------------------
Owners == {"vrgA", "vrgB"}
Volumes == {"pvc1", "pvc2"}

\* the owner whose calls, and the volume whose objects, Spec explores in full
Callers == {"vrgA"}
Protected == {"pvc1"}

\* the names of the snapshots the transport takes
Snapshots == {"snap1", "snap2"}

\* ------------------------------------------------------------------------
\* Maps (Go map[string]string) as functions with a finite domain
\* ------------------------------------------------------------------------
EmptyMap == [k \in {} |-> ""]

MapPut(m, k, v) == [x \in (DOMAIN m) \cup {k} |-> IF x = k THEN v ELSE m[x]]

MapHas(m, k) == k \in DOMAIN m

\* strings the code takes apart are sequences of one-character strings
Digits == {"0", "1", "2", "3", "4", "5", "6", "7", "8", "9"}

DigitVal(c) ==
    CASE c = "0" -> 0 [] c = "1" -> 1 [] c = "2" -> 2 [] c = "3" -> 3
      [] c = "4" -> 4 [] c = "5" -> 5 [] c = "6" -> 6 [] c = "7" -> 7
      [] c = "8" -> 8 [] c = "9" -> 9

\* strings.HasPrefix
HasPrefix(s, p) == Len(s) >= Len(p) /\ SubSeq(s, 1, Len(p)) = p

\* strings.ToLower on the one-character unit
ToLower(c) ==
    CASE c = "M" -> "m" [] c = "H" -> "h" [] c = "D" -> "d" [] OTHER -> c

\* ------------------------------------------------------------------------
\* Cluster configuration the handler reads but never writes
\* ------------------------------------------------------------------------
\* volumes in the order a list returns them
VolumeOrder == <<"pvc1", "pvc2">>

\* storage classes by name: the provisioner of each
StorageClasses == [sc \in {"sc1", "sc9"} |-> IF sc = "sc1" THEN "csi1" ELSE "csi9"]

\* the volume snapshot classes the handler's selector matches, in list order
SnapshotClasses ==
    << [name |-> "vsc-a", driver |-> "csi1", annotations |-> EmptyMap],
       [name |-> "vsc-b", driver |-> "csi1",
        annotations |-> [k \in {"snapshot.storage.kubernetes.io/is-default-class"} |-> "true"]],
       [name |-> "vsc-c", driver |-> "csi2", annotations |-> EmptyMap] >>

\* the scheduling interval the handlers of Spec are constructed with
SchedulingInterval == <<"5", "m">>


\* the names of the DRPolicies and of the DRPlacementControls on the hub
PolicyNames == {"dp1", "dp2", "dp3"}
DRPCNames == {"drpc1", "drpc2"}

\* a DRPolicy: its spec.drClusters, the cluster groups it replicates synchronously
\* within, its deletion timestamp and finalizer, and whether its secrets are deployed
\* to its clusters
NoDRPolicy ==
    [exists |-> FALSE, drClusters |-> <<>>, metro |-> <<>>, deleted |-> FALSE,
     finalizer |-> FALSE, deployed |-> FALSE]

\* a DRPlacementControl: its spec.drPolicyRef.name
NoDRPC == [exists |-> FALSE, drPolicyRef |-> ""]

\* ------------------------------------------------------------------------
\* Objects
\* ------------------------------------------------------------------------
NoSecret == [exists |-> FALSE, ownerRefs |-> {}]

NoTrigger == [manual |-> "", schedule |-> <<>>]

NoRSSpec ==
    [sourcePVC |-> "", trigger |-> NoTrigger, sshKeys |-> "", address |-> <<>>,
     copyMethod |-> "", vscName |-> ""]

\* Status == nil
NoRSStatus == [present |-> FALSE, lastSyncTime |-> "nil", lastManualSync |-> ""]

NoRS ==
    [exists |-> FALSE, labels |-> EmptyMap, ctrl |-> "", spec |-> NoRSSpec,
     status |-> NoRSStatus]

NoRDSpec ==
    [serviceType |-> "", sshKeys |-> "", copyMethod |-> "", capacity |-> "",
     storageClassName |-> "", accessModes |-> <<>>, vscName |-> ""]

\* a nil *TypedLocalObjectReference; apiGroup "" is a nil or empty APIGroup
NilImage == [nil |-> TRUE, apiGroup |-> "", kind |-> "", name |-> ""]

NoRDStatus == [present |-> FALSE, address |-> FALSE, latestImage |-> NilImage]

NoRD ==
    [exists |-> FALSE, labels |-> EmptyMap, ctrl |-> "", spec |-> NoRDSpec,
     status |-> NoRDStatus]

NoSE == [exists |-> FALSE, name |-> <<>>, ownerRefs |-> {}]

\* the spec of a claim that sets nothing
NoPVCSpec ==
    [accessModes |-> <<>>, storageClassName |-> "", dataSource |-> NilImage,
     resources |-> ""]

NoPVC ==
    [exists |-> FALSE, labels |-> EmptyMap, ownerRefs |-> {}, annotations |-> EmptyMap,
     spec |-> NoPVCSpec, phase |-> ""]

NoSnapshot == [exists |-> FALSE, labels |-> EmptyMap, ownerRefs |-> {}]

\* a claim as the workload created it
FreshPVC == [NoPVC EXCEPT !.exists = TRUE]

\* ------------------------------------------------------------------------
\* The context threaded through one call
\* ------------------------------------------------------------------------
\* An API operation is <<verb, kind, name>>.  f is the set of the operations that fail
\* in this call, each as <<operation, k>>: the k-th time the call issues it.
NewCtx(w, h, f) == [w |-> w, h |-> h, log |-> <<>>, err |-> "", f |-> f]

Issue(c, op) == [c EXCEPT !.log = Append(@, op)]

\* how many times op occurs in log
Occurrences(log, op) == Len(SelectSeq(log, LAMBDA x : x = op))

\* whether op, issued next in context c, fails
Fails(c, op) == <<op, Occurrences(c.log, op) + 1>> \in c.f

Err(c, e) == [c EXCEPT !.err = e]

\* the operations a call issued, each with its occurrence number
IssuedOps(log) == {<<log[i], Occurrences(SubSeq(log, 1, i), log[i])>> : i \in 1..Len(log)}

\* the operations of a call that were issued and failed
Failed(c) == {x[1] : x \in IssuedOps(c.log) \cap c.f}

\* ------------------------------------------------------------------------
\* Schedule translation
\* ------------------------------------------------------------------------
RECURSIVE DigitsValue(_)
DigitsValue(s) ==
    IF s = <<>> THEN 0
    ELSE 10 * DigitsValue(SubSeq(s, 1, Len(s) - 1)) + DigitVal(s[Len(s)])

\* the digits of strconv.Atoi's argument, after its optional sign
AtoiBody(s) == IF Len(s) > 0 /\ s[1] \in {"+", "-"} THEN Tail(s) ELSE s

\* strconv.Atoi: [ok, val]
Atoi(s) ==
    LET body == AtoiBody(s) IN
    IF Len(body) = 0 \/ \E i \in 1..Len(body) : body[i] \notin Digits
    THEN [ok |-> FALSE, val |-> 0]
    ELSE [ok |-> TRUE,
          val |-> IF s[1] = "-" THEN 0 - DigitsValue(body) ELSE DigitsValue(body)]


\* ConvertSchedulingIntervalToCronSpec that emits the number of days as given
ConvertSchedulingIntervalToCronSpec_NoCap(schedulingInterval) ==
    IF Len(schedulingInterval) < SchedulingIntervalMinLength
    THEN [err |-> "scheduling interval is invalid", spec |-> <<>>]
    ELSE
      LET mhd == ToLower(schedulingInterval[Len(schedulingInterval)])
          num == SubSeq(schedulingInterval, 1, Len(schedulingInterval) - 1)
          numInt == Atoi(num)
          cronSpec ==
            CASE mhd = "m" -> <<"*/">> \o num \o <<" * * * *">>
              [] mhd = "h" -> <<"0 */">> \o num \o <<" * * *">>
              [] mhd = "d" -> <<"0 0 */">> \o num \o <<" * *">>
              [] OTHER -> <<>>
      IN IF ~numInt.ok
         THEN [err |-> "scheduling interval prefix cannot be convered to an int value",
               spec |-> <<>>]
         ELSE IF cronSpec = <<>>
         THEN [err |-> "scheduling interval is invalid. Unable to parse m/h/d", spec |-> <<>>]
         ELSE [err |-> "", spec |-> cronSpec]

ConvertSchedulingIntervalToCronSpec(schedulingInterval) ==
    IF Len(schedulingInterval) < SchedulingIntervalMinLength
    THEN [err |-> "scheduling interval is invalid", spec |-> <<>>]
    ELSE
      LET mhd == ToLower(schedulingInterval[Len(schedulingInterval)])
          num == SubSeq(schedulingInterval, 1, Len(schedulingInterval) - 1)
          numInt == Atoi(num)
          cronSpec ==
            CASE mhd = "m" -> <<"*/">> \o num \o <<" * * * *">>
              [] mhd = "h" -> <<"0 */">> \o num \o <<" * * *">>
              [] mhd = "d" ->
                   <<"0 0 */">>
                   \o (IF numInt.val > CronSpecMaxDayOfMonth THEN <<"2", "8">> ELSE num)
                   \o <<" * *">>
              [] OTHER -> <<>>
      IN IF ~numInt.ok
         THEN [err |-> "scheduling interval prefix cannot be convered to an int value",
               spec |-> <<>>]
         ELSE IF cronSpec = <<>>
         THEN [err |-> "scheduling interval is invalid. Unable to parse m/h/d", spec |-> <<>>]
         ELSE [err |-> "", spec |-> cronSpec]


\* getScheduleCronSpec that converts the empty interval as well
getScheduleCronSpec_NoDefault(schedulingInterval) ==
    ConvertSchedulingIntervalToCronSpec(schedulingInterval)

getScheduleCronSpec(schedulingInterval) ==
    IF schedulingInterval # <<>>
    THEN ConvertSchedulingIntervalToCronSpec(schedulingInterval)
    ELSE [err |-> "", spec |-> DefaultScheduleCronSpec]

\* ------------------------------------------------------------------------
\* Names
\* ------------------------------------------------------------------------
getReplicationDestinationName(pvcName) == pvcName

getReplicationSourceName(pvcName) == pvcName

getLocalServiceNameForRD(rdName) == <<"volsync-rsync-dst-", rdName>>

getRemoteServiceNameForRDFromPVCName(pvcName, rdNamespace) ==
    getLocalServiceNameForRD(getReplicationDestinationName(pvcName))
    \o <<".", rdNamespace, ".svc.clusterset.local">>

\* the one namespace both owners live in
OwnerNamespace == "ns"

\* the name of the owner's pre-allocated SSH secret
GetVolSyncSSHSecretNameFromVRGName(vrgName) == vrgName

\* ------------------------------------------------------------------------
\* Status predicates
\* ------------------------------------------------------------------------
isLatestImageReady(latestImage) ==
    ~(latestImage.nil \/ latestImage.name = "" \/ latestImage.kind # VolumeSnapshotKind)


\* isRSLastSyncTimeReady without the test of the last sync time
isRSLastSyncTimeReady_StatusOnly(rsStatus) == rsStatus.present

isRSLastSyncTimeReady(rsStatus) ==
    rsStatus.present /\ rsStatus.lastSyncTime # "nil" /\ rsStatus.lastSyncTime # "zero"


\* rdStatusReady without the test of the latest image
rdStatusReady_AddressOnly(rd) == rd.status.present /\ rd.status.address

rdStatusReady(rd) ==
    IF ~rd.status.present THEN FALSE
    ELSE IF ~rd.status.address THEN FALSE
    ELSE IF ~isLatestImageReady(rd.status.latestImage) THEN FALSE
    ELSE TRUE

isFinalSyncComplete(replicationSource) ==
    ~(~replicationSource.status.present
      \/ replicationSource.status.lastManualSync # FinalSyncTriggerString)

addVRGOwnerLabel(owner, labels) == MapPut(labels, VRGOwnerLabel, owner)

\* ------------------------------------------------------------------------
\* The transport secret
\* ------------------------------------------------------------------------
\* ctrlutil.SetOwnerReference on a set of owner names, and whether it changed it
addOwnerReference(ownerRefs, owner) ==
    [refs |-> ownerRefs \cup {owner}, needsUpdate |-> (ownerRefs \cup {owner}) # ownerRefs]


\* validateSecretAndAddVRGOwnerRef that lets the call go on without the secret
validateSecretAndAddVRGOwnerRef_GoOn(c, owner) ==
    LET get == <<"get", "secret", GetVolSyncSSHSecretNameFromVRGName(owner)>>
    IN IF Fails(c, get) THEN [c |-> Err(Issue(c, get), "error getting secret"), exists |-> FALSE]
       ELSE [c |-> Issue(c, get), exists |-> TRUE]


\* validateSecretAndAddVRGOwnerRef that updates the secret whether or not it changed it
validateSecretAndAddVRGOwnerRef_Always(c, owner) ==
    LET secretName == GetVolSyncSSHSecretNameFromVRGName(owner)
        get == <<"get", "secret", secretName>>
        upd == <<"update", "secret", secretName>>
        c1 == Issue(c, get)
        secret == c.w.secret[secretName]
        r == addOwnerReference(secret.ownerRefs, owner)
    IN IF Fails(c, get) THEN [c |-> Err(c1, "error getting secret"), exists |-> FALSE]
       ELSE IF ~secret.exists THEN [c |-> c1, exists |-> FALSE]
       ELSE IF Fails(c, upd)
       THEN [c |-> Err(Issue(c1, upd), "failed to add owner reference"), exists |-> TRUE]
       ELSE [c |-> [Issue(c1, upd) EXCEPT !.w.secret[secretName].ownerRefs = r.refs],
             exists |-> TRUE]

\* [c, exists]
validateSecretAndAddVRGOwnerRef(c, owner) ==
    LET secretName == GetVolSyncSSHSecretNameFromVRGName(owner)
        get == <<"get", "secret", secretName>>
        upd == <<"update", "secret", secretName>>
        c1 == Issue(c, get)
        secret == c.w.secret[secretName]
        r == addOwnerReference(secret.ownerRefs, owner)
    IN IF Fails(c, get) THEN [c |-> Err(c1, "error getting secret"), exists |-> FALSE]
       ELSE IF ~secret.exists THEN [c |-> c1, exists |-> FALSE]
       ELSE IF ~r.needsUpdate THEN [c |-> c1, exists |-> TRUE]
       ELSE IF Fails(c, upd)
       THEN [c |-> Err(Issue(c1, upd), "failed to add owner reference"), exists |-> TRUE]
       ELSE [c |-> [Issue(c1, upd) EXCEPT !.w.secret[secretName].ownerRefs = r.refs],
             exists |-> TRUE]


\* listByOwner that returns the objects of every owner
listByOwner_Everyone(objs, owner) ==
    SelectSeq(VolumeOrder, LAMBDA n : objs[n].exists)

\* ------------------------------------------------------------------------
\* Listing and deleting the children of an owner
\* ------------------------------------------------------------------------
\* the names of the objects of objs (rs or rd) a list by the owner's label returns
listByOwner(objs, owner) ==
    SelectSeq(VolumeOrder,
              LAMBDA n : objs[n].exists /\ MapHas(objs[n].labels, VRGOwnerLabel)
                         /\ objs[n].labels[VRGOwnerLabel] = owner)

\* client.Delete of each named object in turn: a failure is logged and skipped
RECURSIVE DeleteEachRS(_, _)
DeleteEachRS(c, names) ==
    IF names = <<>> THEN c
    ELSE LET del == <<"delete", "rs", Head(names)>>
             c1 == Issue(c, del)
         IN DeleteEachRS(IF Fails(c, del) THEN c1
                         ELSE [c1 EXCEPT !.w.rs[Head(names)] = NoRS],
                         Tail(names))

RECURSIVE DeleteEachRD(_, _)
DeleteEachRD(c, names) ==
    IF names = <<>> THEN c
    ELSE LET del == <<"delete", "rd", Head(names)>>
             c1 == Issue(c, del)
         IN DeleteEachRD(IF Fails(c, del) THEN c1
                         ELSE [c1 EXCEPT !.w.rd[Head(names)] = NoRD],
                         Tail(names))

DeleteRS(c, owner, pvcName) ==
    LET list == <<"list", "rs", owner>>
        c1 == Issue(c, list)
    IN IF Fails(c, list) THEN Err(c1, "error listing by label")
       ELSE DeleteEachRS(c1, SelectSeq(listByOwner(c.w.rs, owner),
                                       LAMBDA n : n = getReplicationSourceName(pvcName)))

DeleteRD(c, owner, pvcName) ==
    LET list == <<"list", "rd", owner>>
        c1 == Issue(c, list)
    IN IF Fails(c, list) THEN Err(c1, "error listing by label")
       ELSE DeleteEachRD(c1, SelectSeq(listByOwner(c.w.rd, owner),
                                       LAMBDA n : n = getReplicationDestinationName(pvcName)))


\* CleanupRDNotInSpecList that reports a delete that failed
CleanupRDNotInSpecList_FailFast(c, owner, rdSpecList) ==
    LET list == <<"list", "rd", owner>>
        c1 == Issue(c, list)
        foundInSpecList(n) ==
            \E i \in DOMAIN rdSpecList :
               n = getReplicationDestinationName(rdSpecList[i].name)
        c2 == DeleteEachRD(c1, SelectSeq(listByOwner(c.w.rd, owner),
                                         LAMBDA n : ~foundInSpecList(n)))
    IN IF Fails(c, list) THEN Err(c1, "error listing by label")
       ELSE IF Failed(c2) # {} THEN Err(c2, "error cleaning up ReplicationDestination")
       ELSE c2

\* CleanupRDNotInSpecList that goes through the RDs of every owner
CleanupRDNotInSpecList_AllOwners(c, owner, rdSpecList) ==
    LET list == <<"list", "rd", owner>>
        c1 == Issue(c, list)
        foundInSpecList(n) ==
            \E i \in DOMAIN rdSpecList :
               n = getReplicationDestinationName(rdSpecList[i].name)
    IN IF Fails(c, list) THEN Err(c1, "error listing by label")
       ELSE DeleteEachRD(c1, SelectSeq(VolumeOrder,
                                       LAMBDA n : c.w.rd[n].exists /\ ~foundInSpecList(n)))

CleanupRDNotInSpecList(c, owner, rdSpecList) ==
    LET list == <<"list", "rd", owner>>
        c1 == Issue(c, list)
        foundInSpecList(n) ==
            \E i \in DOMAIN rdSpecList :
               n = getReplicationDestinationName(rdSpecList[i].name)
    IN IF Fails(c, list) THEN Err(c1, "error listing by label")
       ELSE DeleteEachRD(c1, SelectSeq(listByOwner(c.w.rd, owner),
                                       LAMBDA n : ~foundInSpecList(n)))

\* ------------------------------------------------------------------------
\* Snapshot class selection
\* ------------------------------------------------------------------------
VolumeSnapshotIsDefaultAnnotation == "snapshot.storage.kubernetes.io/is-default-class"

VolumeSnapshotIsDefaultAnnotationValue == "true"

isDefaultVolumeSnapshotClass(volumeSnapshotClass) ==
    MapHas(volumeSnapshotClass.annotations, VolumeSnapshotIsDefaultAnnotation)
    /\ volumeSnapshotClass.annotations[VolumeSnapshotIsDefaultAnnotation]
         = VolumeSnapshotIsDefaultAnnotationValue


\* the loop that keeps the first match
MatchSnapshotClass_FirstMatch(classes, provisioner, matched) ==
    IF matched # "" \/ ~(\E i \in DOMAIN classes : classes[i].driver = provisioner)
    THEN matched
    ELSE classes[CHOOSE i \in DOMAIN classes :
                    /\ classes[i].driver = provisioner
                    /\ \A j \in 1..(i - 1) : classes[j].driver # provisioner].name

\* the loop over the classes: the first match, replaced by every later default match
RECURSIVE MatchSnapshotClass(_, _, _)
MatchSnapshotClass(classes, provisioner, matched) ==
    IF classes = <<>> THEN matched
    ELSE MatchSnapshotClass(
           Tail(classes), provisioner,
           IF Head(classes).driver = provisioner
              /\ (matched = "" \/ isDefaultVolumeSnapshotClass(Head(classes)))
           THEN Head(classes).name ELSE matched)

\* the handler loads the class list once and keeps it
GetVolumeSnapshotClasses(c) ==
    LET list == <<"list", "vsc", "">>
    IN IF c.h.vscLoaded THEN c
       ELSE IF Fails(c, list) THEN Err(Issue(c, list), "error listing volumesnapshotclasses")
       ELSE [Issue(c, list) EXCEPT !.h.vscLoaded = TRUE]

\* [c, name]
GetVolumeSnapshotClassFromPVCStorageClass(c, storageClassName) ==
    LET get == <<"get", "storageclass", storageClassName>>
        c1 == Issue(c, get)
        c2 == GetVolumeSnapshotClasses(c1)
        matched == MatchSnapshotClass(c.h.classes, StorageClasses[storageClassName], "")
    IN IF storageClassName = ""
       THEN [c |-> Err(c, "no storageClassName given, cannot proceed"), name |-> ""]
       ELSE IF Fails(c, get) \/ storageClassName \notin DOMAIN StorageClasses
       THEN [c |-> Err(c1, "error getting storage class"), name |-> ""]
       ELSE IF c2.err # "" THEN [c |-> c2, name |-> ""]
       ELSE IF matched = ""
       THEN [c |-> Err(c2, "unable to find matching volumesnapshotclass"), name |-> ""]
       ELSE [c |-> c2, name |-> matched]

\* ------------------------------------------------------------------------
\* Replication destination
\* ------------------------------------------------------------------------
DefaultRsyncServiceType == "ClusterIP"

\* ctrl.SetControllerReference refuses an object another owner controls
AlreadyOwned(obj, owner) == obj.exists /\ obj.ctrl # "" /\ obj.ctrl # owner


\* mutate function that stamps the owner's label only on an object without labels
MutateRD_StampOnce(rd, owner, rdSpec, sshKeysSecretName, volumeSnapshotClassName) ==
    [rd EXCEPT
       !.exists = TRUE,
       !.ctrl = owner,
       !.labels = IF rd.labels = EmptyMap THEN addVRGOwnerLabel(owner, rd.labels) ELSE @,
       !.spec = [serviceType |-> DefaultRsyncServiceType,
                 sshKeys |-> sshKeysSecretName,
                 copyMethod |-> CopyMethodSnapshot,
                 capacity |-> rdSpec.capacity,
                 storageClassName |-> rdSpec.sc,
                 accessModes |-> rdSpec.accessModes,
                 vscName |-> volumeSnapshotClassName]]

\* the mutate function of createOrUpdateRD applied to the object CreateOrUpdate read
MutateRD(rd, owner, rdSpec, sshKeysSecretName, volumeSnapshotClassName) ==
    [rd EXCEPT
       !.exists = TRUE,
       !.ctrl = owner,
       !.labels = addVRGOwnerLabel(owner, rd.labels),
       !.spec = [serviceType |-> DefaultRsyncServiceType,
                 sshKeys |-> sshKeysSecretName,
                 copyMethod |-> CopyMethodSnapshot,
                 capacity |-> rdSpec.capacity,
                 storageClassName |-> rdSpec.sc,
                 accessModes |-> IF Len(rdSpec.accessModes) > 0 THEN rdSpec.accessModes
                                 ELSE <<ReadWriteOnce>>,
                 vscName |-> volumeSnapshotClassName]]


\* createOrUpdateRD that creates the RD without its spec and leaves the spec to the
\* next update
createOrUpdateRD_CreateBare(c, owner, rdSpec, sshKeysSecretName) ==
    LET vsc == GetVolumeSnapshotClassFromPVCStorageClass(c, rdSpec.sc)
        name == getReplicationDestinationName(rdSpec.name)
        get == <<"get", "rd", name>>
        create == <<"create", "rd", name>>
        update == <<"update", "rd", name>>
        c1 == Issue(vsc.c, get)
        found == c.w.rd[name]
        rd == MutateRD(found, owner, rdSpec, sshKeysSecretName, vsc.name)
        bare == [rd EXCEPT !.spec = NoRDSpec]
    IN IF vsc.c.err # "" THEN [c |-> vsc.c, rd |-> NoRD]
       ELSE IF Fails(c, get) THEN [c |-> Err(c1, "get failed"), rd |-> NoRD]
       ELSE IF AlreadyOwned(found, owner)
       THEN [c |-> Err(c1, "object is already owned by another controller"), rd |-> NoRD]
       ELSE IF ~found.exists
       THEN IF Fails(c, create) THEN [c |-> Err(Issue(c1, create), "create failed"), rd |-> NoRD]
            ELSE [c |-> [Issue(c1, create) EXCEPT !.w.rd[name] = bare], rd |-> bare]
       ELSE IF rd = found THEN [c |-> c1, rd |-> rd]
       ELSE IF Fails(c, update) THEN [c |-> Err(Issue(c1, update), "update failed"), rd |-> NoRD]
       ELSE [c |-> [Issue(c1, update) EXCEPT !.w.rd[name] = rd], rd |-> rd]

\* [c, rd]: rd is the object returned, meaningful when c.err = ""
createOrUpdateRD(c, owner, rdSpec, sshKeysSecretName) ==
    LET vsc == GetVolumeSnapshotClassFromPVCStorageClass(c, rdSpec.sc)
        name == getReplicationDestinationName(rdSpec.name)
        get == <<"get", "rd", name>>
        create == <<"create", "rd", name>>
        update == <<"update", "rd", name>>
        c1 == Issue(vsc.c, get)
        found == c.w.rd[name]
        rd == MutateRD(found, owner, rdSpec, sshKeysSecretName, vsc.name)
    IN IF vsc.c.err # "" THEN [c |-> vsc.c, rd |-> NoRD]
       ELSE IF Fails(c, get) THEN [c |-> Err(c1, "get failed"), rd |-> NoRD]
       ELSE IF AlreadyOwned(found, owner)
       THEN [c |-> Err(c1, "object is already owned by another controller"), rd |-> NoRD]
       ELSE IF ~found.exists
       THEN IF Fails(c, create) THEN [c |-> Err(Issue(c1, create), "create failed"), rd |-> NoRD]
            ELSE [c |-> [Issue(c1, create) EXCEPT !.w.rd[name] = rd], rd |-> rd]
       ELSE IF rd = found THEN [c |-> c1, rd |-> rd]
       ELSE IF Fails(c, update) THEN [c |-> Err(Issue(c1, update), "update failed"), rd |-> NoRD]
       ELSE [c |-> [Issue(c1, update) EXCEPT !.w.rd[name] = rd], rd |-> rd]


\* reconcileServiceExportForRD that makes the owner of the RD the owner of the
\* ServiceExport
reconcileServiceExportForRD_OwnedByVRG(c, rdName) ==
    LET name == getLocalServiceNameForRD(rdName)
        get == <<"get", "serviceexport", rdName>>
        create == <<"create", "serviceexport", rdName>>
        update == <<"update", "serviceexport", rdName>>
        c1 == Issue(c, get)
        found == c.w.se[rdName]
        svcExport == [exists |-> TRUE, name |-> name,
                      ownerRefs |-> addOwnerReference(found.ownerRefs,
                                                      c.w.rd[rdName].ctrl).refs]
    IN IF Fails(c, get) THEN Err(c1, "error creating or updating ServiceExport")
       ELSE IF ~found.exists
       THEN IF Fails(c, create)
            THEN Err(Issue(c1, create), "error creating or updating ServiceExport")
            ELSE [Issue(c1, create) EXCEPT !.w.se[rdName] = svcExport]
       ELSE IF svcExport = found THEN c1
       ELSE IF Fails(c, update)
       THEN Err(Issue(c1, update), "error creating or updating ServiceExport")
       ELSE [Issue(c1, update) EXCEPT !.w.se[rdName] = svcExport]

\* the ServiceExport of an RD is stored under the RD's name
reconcileServiceExportForRD(c, rdName) ==
    LET name == getLocalServiceNameForRD(rdName)
        get == <<"get", "serviceexport", rdName>>
        create == <<"create", "serviceexport", rdName>>
        update == <<"update", "serviceexport", rdName>>
        c1 == Issue(c, get)
        found == c.w.se[rdName]
        svcExport == [exists |-> TRUE, name |-> name,
                      ownerRefs |-> addOwnerReference(found.ownerRefs, rdName).refs]
    IN IF Fails(c, get) THEN Err(c1, "error creating or updating ServiceExport")
       ELSE IF ~found.exists
       THEN IF Fails(c, create)
            THEN Err(Issue(c1, create), "error creating or updating ServiceExport")
            ELSE [Issue(c1, create) EXCEPT !.w.se[rdName] = svcExport]
       ELSE IF svcExport = found THEN c1
       ELSE IF Fails(c, update)
       THEN Err(Issue(c1, update), "error creating or updating ServiceExport")
       ELSE [Issue(c1, update) EXCEPT !.w.se[rdName] = svcExport]

\* a call's result: the context it ended with and what it returned
Result(c, final, obj, found) == [c |-> c, final |-> final, obj |-> obj, nonNil |-> found]


\* ReconcileRD that creates the RD before it cleans up the RS
ReconcileRD_CreateFirst(c, owner, rdSpec) ==
    LET sshKeysSecretName == GetVolSyncSSHSecretNameFromVRGName(owner)
        sec == validateSecretAndAddVRGOwnerRef(c, owner)
        cu == createOrUpdateRD(sec.c, owner, rdSpec, sshKeysSecretName)
        c3 == DeleteRS(cu.c, owner, rdSpec.name)
        c4 == reconcileServiceExportForRD(c3, getReplicationDestinationName(rdSpec.name))
    IN IF ~rdSpec.enabled
       THEN Result(Err(c, "protectedPVC is not VolSync Enabled"), FALSE, NoRD, FALSE)
       ELSE IF sec.c.err # "" \/ ~sec.exists THEN Result(sec.c, FALSE, NoRD, FALSE)
       ELSE IF cu.c.err # "" THEN Result(cu.c, FALSE, NoRD, FALSE)
       ELSE IF c3.err # "" THEN Result(c3, FALSE, NoRD, FALSE)
       ELSE IF c4.err # "" THEN Result(c4, FALSE, NoRD, FALSE)
       ELSE IF ~rdStatusReady(cu.rd) THEN Result(c4, FALSE, NoRD, FALSE)
       ELSE Result(c4, FALSE, cu.rd, TRUE)

\* ReconcileRD that lets a descriptor pass that is not replication-enabled
ReconcileRD_NoEnabledCheck(c, owner, rdSpec) ==
    LET sshKeysSecretName == GetVolSyncSSHSecretNameFromVRGName(owner)
        sec == validateSecretAndAddVRGOwnerRef(c, owner)
        c2 == DeleteRS(sec.c, owner, rdSpec.name)
        cu == createOrUpdateRD(c2, owner, rdSpec, sshKeysSecretName)
        c4 == reconcileServiceExportForRD(cu.c, getReplicationDestinationName(rdSpec.name))
    IN IF sec.c.err # "" \/ ~sec.exists THEN Result(sec.c, FALSE, NoRD, FALSE)
       ELSE IF c2.err # "" THEN Result(c2, FALSE, NoRD, FALSE)
       ELSE IF cu.c.err # "" THEN Result(cu.c, FALSE, NoRD, FALSE)
       ELSE IF c4.err # "" THEN Result(c4, FALSE, NoRD, FALSE)
       ELSE IF ~rdStatusReady(cu.rd) THEN Result(c4, FALSE, NoRD, FALSE)
       ELSE Result(c4, FALSE, cu.rd, TRUE)

ReconcileRD(c, owner, rdSpec) ==
    LET sshKeysSecretName == GetVolSyncSSHSecretNameFromVRGName(owner)
        sec == validateSecretAndAddVRGOwnerRef(c, owner)
        c2 == DeleteRS(sec.c, owner, rdSpec.name)
        cu == createOrUpdateRD(c2, owner, rdSpec, sshKeysSecretName)
        c4 == reconcileServiceExportForRD(cu.c, getReplicationDestinationName(rdSpec.name))
    IN IF ~rdSpec.enabled
       THEN Result(Err(c, "protectedPVC is not VolSync Enabled"), FALSE, NoRD, FALSE)
       ELSE IF sec.c.err # "" \/ ~sec.exists THEN Result(sec.c, FALSE, NoRD, FALSE)
       ELSE IF c2.err # "" THEN Result(c2, FALSE, NoRD, FALSE)
       ELSE IF cu.c.err # "" THEN Result(cu.c, FALSE, NoRD, FALSE)
       ELSE IF c4.err # "" THEN Result(c4, FALSE, NoRD, FALSE)
       ELSE IF ~rdStatusReady(cu.rd) THEN Result(c4, FALSE, NoRD, FALSE)
       ELSE Result(c4, FALSE, cu.rd, TRUE)

\* ------------------------------------------------------------------------
\* The protected claim
\* ------------------------------------------------------------------------
\* [c, inUse]
isPvcInUse(c, pvcName) ==
    LET list == <<"list", "pod", pvcName>>
        c1 == Issue(c, list)
    IN IF Fails(c, list)
       THEN [c |-> Err(c1, "unable to lookup pods to check if pvc is in use"), inUse |-> FALSE]
       ELSE IF c.w.pods[pvcName] = 0 THEN [c |-> c1, inUse |-> FALSE]
       ELSE [c |-> c1, inUse |-> TRUE]


\* pvcExistsAndInUse that looks at the pods of a claim that does not exist
pvcExistsAndInUse_PodsOnly(c, pvcName) ==
    LET get == <<"get", "pvc", pvcName>>
        c1 == Issue(c, get)
    IN IF Fails(c, get) THEN [c |-> Err(c1, "get pvc failed"), inUse |-> FALSE]
       ELSE isPvcInUse(c1, pvcName)

\* [c, inUse]
pvcExistsAndInUse(c, pvcName) ==
    LET get == <<"get", "pvc", pvcName>>
        c1 == Issue(c, get)
    IN IF Fails(c, get) THEN [c |-> Err(c1, "get pvc failed"), inUse |-> FALSE]
       ELSE IF ~c.w.pvc[pvcName].exists THEN [c |-> c1, inUse |-> FALSE]
       ELSE isPvcInUse(c1, pvcName)


\* validatePVCBeforeFinalSync that goes on while the claim is in use
validatePVCBeforeFinalSync_NoGate(c, rsSpec, runFinalSync) ==
    LET r == pvcExistsAndInUse(c, rsSpec.name)
    IN IF ~runFinalSync THEN [c |-> c, ok |-> TRUE]
       ELSE IF r.c.err # "" THEN [c |-> r.c, ok |-> FALSE]
       ELSE [c |-> r.c, ok |-> TRUE]

\* [c, ok]
validatePVCBeforeFinalSync(c, rsSpec, runFinalSync) ==
    LET r == pvcExistsAndInUse(c, rsSpec.name)
    IN IF ~runFinalSync THEN [c |-> c, ok |-> TRUE]
       ELSE IF r.c.err # "" THEN [c |-> r.c, ok |-> FALSE]
       ELSE IF r.inUse THEN [c |-> r.c, ok |-> FALSE]
       ELSE [c |-> r.c, ok |-> TRUE]



\* deletePVC that returns the NotFound of the delete as an error
deletePVC_MustExist(c, pvcName) ==
    LET del == <<"delete", "pvc", pvcName>>
        c1 == Issue(c, del)
    IN IF Fails(c, del) \/ ~c.w.pvc[pvcName].exists THEN Err(c1, "error deleting pvc")
       ELSE [c1 EXCEPT !.w.pvc[pvcName] = NoPVC]

\* deletePVC that logs a failed delete and returns nil
deletePVC_LogOnly(c, pvcName) ==
    LET del == <<"delete", "pvc", pvcName>>
        c1 == Issue(c, del)
    IN IF Fails(c, del) \/ ~c.w.pvc[pvcName].exists THEN c1
       ELSE [c1 EXCEPT !.w.pvc[pvcName] = NoPVC]

deletePVC(c, pvcName) ==
    LET del == <<"delete", "pvc", pvcName>>
        c1 == Issue(c, del)
    IN IF Fails(c, del) THEN Err(c1, "error deleting pvc")
       ELSE IF ~c.w.pvc[pvcName].exists THEN c1
       ELSE [c1 EXCEPT !.w.pvc[pvcName] = NoPVC]


\* cleanupAfterRSFinalSync that leaves the claim in place
cleanupAfterRSFinalSync_KeepClaim(c, rsSpec) == c

cleanupAfterRSFinalSync(c, rsSpec) == deletePVC(c, rsSpec.name)


\* mutate function that sets its own field of the trigger and keeps the other
MutateRS_KeepOther(rs, owner, rsSpec, sshKeysSecretName, runFinalSync, schedulingInterval, vscName) ==
    LET scheduleCronSpec == getScheduleCronSpec(schedulingInterval)
        trigger == IF runFinalSync
                   THEN [rs.spec.trigger EXCEPT !.manual = FinalSyncTriggerString]
                   ELSE [rs.spec.trigger EXCEPT !.schedule = scheduleCronSpec.spec]
    IN IF ~runFinalSync /\ scheduleCronSpec.err # ""
       THEN [err |-> scheduleCronSpec.err, rs |-> rs]
       ELSE [err |-> "",
             rs |-> [rs EXCEPT
                       !.exists = TRUE,
                       !.ctrl = owner,
                       !.labels = addVRGOwnerLabel(owner, rs.labels),
                       !.spec = [sourcePVC |-> rsSpec.name,
                                 trigger |-> trigger,
                                 sshKeys |-> sshKeysSecretName,
                                 address |-> getRemoteServiceNameForRDFromPVCName(
                                               rsSpec.name, OwnerNamespace),
                                 copyMethod |-> CopyMethodSnapshot,
                                 vscName |-> vscName]]]

\* ------------------------------------------------------------------------
\* Replication source
\* ------------------------------------------------------------------------
\* the mutate function of createOrUpdateRS: [err, rs]
MutateRS(rs, owner, rsSpec, sshKeysSecretName, runFinalSync, schedulingInterval, vscName) ==
    LET scheduleCronSpec == getScheduleCronSpec(schedulingInterval)
        trigger == IF runFinalSync
                   THEN [manual |-> FinalSyncTriggerString, schedule |-> <<>>]
                   ELSE [manual |-> "", schedule |-> scheduleCronSpec.spec]
    IN IF ~runFinalSync /\ scheduleCronSpec.err # ""
       THEN [err |-> scheduleCronSpec.err, rs |-> rs]
       ELSE [err |-> "",
             rs |-> [rs EXCEPT
                       !.exists = TRUE,
                       !.ctrl = owner,
                       !.labels = addVRGOwnerLabel(owner, rs.labels),
                       !.spec = [sourcePVC |-> rsSpec.name,
                                 trigger |-> trigger,
                                 sshKeys |-> sshKeysSecretName,
                                 address |-> getRemoteServiceNameForRDFromPVCName(
                                               rsSpec.name, OwnerNamespace),
                                 copyMethod |-> CopyMethodSnapshot,
                                 vscName |-> vscName]]]

\* [c, rs]: rs is the object returned, meaningful when c.err = ""
createOrUpdateRS(c, owner, rsSpec, sshKeysSecretName, runFinalSync) ==
    LET vsc == GetVolumeSnapshotClassFromPVCStorageClass(c, rsSpec.sc)
        name == getReplicationSourceName(rsSpec.name)
        get == <<"get", "rs", name>>
        create == <<"create", "rs", name>>
        update == <<"update", "rs", name>>
        c1 == Issue(vsc.c, get)
        found == c.w.rs[name]
        m == MutateRS(found, owner, rsSpec, sshKeysSecretName, runFinalSync,
                      c.h.schedulingInterval, vsc.name)
    IN IF vsc.c.err # "" THEN [c |-> vsc.c, rs |-> NoRS]
       ELSE IF Fails(c, get) THEN [c |-> Err(c1, "get failed"), rs |-> NoRS]
       ELSE IF AlreadyOwned(found, owner)
       THEN [c |-> Err(c1, "object is already owned by another controller"), rs |-> NoRS]
       ELSE IF m.err # "" THEN [c |-> Err(c1, m.err), rs |-> NoRS]
       ELSE IF ~found.exists
       THEN IF Fails(c, create) THEN [c |-> Err(Issue(c1, create), "create failed"), rs |-> NoRS]
            ELSE [c |-> [Issue(c1, create) EXCEPT !.w.rs[name] = m.rs], rs |-> m.rs]
       ELSE IF m.rs = found THEN [c |-> c1, rs |-> m.rs]
       ELSE IF Fails(c, update) THEN [c |-> Err(Issue(c1, update), "update failed"), rs |-> NoRS]
       ELSE [c |-> [Issue(c1, update) EXCEPT !.w.rs[name] = m.rs], rs |-> m.rs]

ReconcileRS(c, owner, rsSpec, runFinalSync) ==
    LET sshKeysSecretName == GetVolSyncSSHSecretNameFromVRGName(owner)
        sec == validateSecretAndAddVRGOwnerRef(c, owner)
        c2 == DeleteRD(sec.c, owner, rsSpec.name)
        pvcOk == validatePVCBeforeFinalSync(c2, rsSpec, runFinalSync)
        cu == createOrUpdateRS(pvcOk.c, owner, rsSpec, sshKeysSecretName, runFinalSync)
    IN IF ~rsSpec.enabled
       THEN Result(Err(c, "protectedPVC is not VolSync Enabled"), FALSE, NoRS, FALSE)
       ELSE IF sec.c.err # "" \/ ~sec.exists THEN Result(sec.c, FALSE, NoRS, FALSE)
       ELSE IF c2.err # "" THEN Result(c2, FALSE, NoRS, FALSE)
       ELSE IF ~pvcOk.ok \/ pvcOk.c.err # "" THEN Result(pvcOk.c, FALSE, NoRS, FALSE)
       ELSE IF cu.c.err # "" THEN Result(cu.c, FALSE, NoRS, FALSE)
       ELSE IF ~isRSLastSyncTimeReady(cu.rs.status) THEN Result(cu.c, FALSE, NoRS, FALSE)
       ELSE IF runFinalSync /\ isFinalSyncComplete(cu.rs)
       THEN Result(cleanupAfterRSFinalSync(cu.c, rsSpec), TRUE, cu.rs, TRUE)
       ELSE Result(cu.c, FALSE, cu.rs, TRUE)

\* ------------------------------------------------------------------------
\* Ownership transfer of the claim before the final sync
\* ------------------------------------------------------------------------
\* annotation keys are sequences of pieces, so that a prefix can be taken
ACMAnnotationPrefix == <<"apps.open-cluster-management.io">>

ReconcileOptionAnnotation == <<"apps.open-cluster-management.io", "/reconcile-option">>

\* addLabel: [labels, labelsUpdated]
addLabel(labels, labelName, labelValue) ==
    IF ~MapHas(labels, labelName) \/ labels[labelName] # labelValue
    THEN [labels |-> MapPut(labels, labelName, labelValue), labelsUpdated |-> TRUE]
    ELSE [labels |-> labels, labelsUpdated |-> FALSE]


\* addLabelAndVRGOwnerRefAndUpdate that updates the claim whether or not it changed it
addLabelAndVRGOwnerRefAndUpdate_Always(c, owner, pvcName, pvc, labelName, labelValue) ==
    LET l == addLabel(pvc.labels, labelName, labelValue)
        r == addOwnerReference(pvc.ownerRefs, owner)
        obj == [pvc EXCEPT !.labels = l.labels, !.ownerRefs = r.refs]
        update == <<"update", "pvc", pvcName>>
    IN IF Fails(c, update)
       THEN [c |-> Err(Issue(c, update), "failed to add label or VRG owner reference"),
             pvc |-> obj]
       ELSE [c |-> [Issue(c, update) EXCEPT !.w.pvc[pvcName] = obj], pvc |-> obj]

\* [c, pvc]: pvc is the claim as the call now holds it
addLabelAndVRGOwnerRefAndUpdate(c, owner, pvcName, pvc, labelName, labelValue) ==
    LET l == addLabel(pvc.labels, labelName, labelValue)
        r == addOwnerReference(pvc.ownerRefs, owner)
        obj == [pvc EXCEPT !.labels = l.labels, !.ownerRefs = r.refs]
        update == <<"update", "pvc", pvcName>>
    IN IF ~(l.labelsUpdated \/ r.needsUpdate) THEN [c |-> c, pvc |-> obj]
       ELSE IF Fails(c, update)
       THEN [c |-> Err(Issue(c, update), "failed to add label or VRG owner reference"),
             pvc |-> obj]
       ELSE [c |-> [Issue(c, update) EXCEPT !.w.pvc[pvcName] = obj], pvc |-> obj]


\* validatePVCAndAddVRGOwnerRef that makes up a claim it does not find
validatePVCAndAddVRGOwnerRef_MakeUp(c, owner, pvcName) ==
    LET get == <<"get", "pvc", pvcName>>
        c1 == Issue(c, get)
    IN IF Fails(c, get) THEN [c |-> Err(c1, "get pvc failed"), pvc |-> NoPVC]
       ELSE addLabelAndVRGOwnerRefAndUpdate(
              c1, owner, pvcName,
              IF c.w.pvc[pvcName].exists THEN c.w.pvc[pvcName] ELSE FreshPVC,
              ACMAppSubDoNotDeleteLabel, ACMAppSubDoNotDeleteLabelVal)

\* [c, pvc]
validatePVCAndAddVRGOwnerRef(c, owner, pvcName) ==
    LET get == <<"get", "pvc", pvcName>>
        c1 == Issue(c, get)
    IN IF Fails(c, get) \/ ~c.w.pvc[pvcName].exists
       THEN [c |-> Err(c1, "get pvc failed"), pvc |-> NoPVC]
       ELSE addLabelAndVRGOwnerRefAndUpdate(c1, owner, pvcName, c.w.pvc[pvcName],
                                            ACMAppSubDoNotDeleteLabel,
                                            ACMAppSubDoNotDeleteLabelVal)


\* StripACMAnnotations that keeps no annotation at all
StripACMAnnotations_All(annotations) == EmptyMap

\* the annotations that are kept: those not from ACM
StripACMAnnotations(annotations) ==
    [k \in {x \in DOMAIN annotations : ~HasPrefix(x, ACMAnnotationPrefix)} |-> annotations[k]]

PreparePVCForFinalSync(c, owner, pvcName) ==
    LET v == validatePVCAndAddVRGOwnerRef(c, owner, pvcName)
        pvc == v.pvc
        update == <<"update", "pvc", pvcName>>
        c1 == Issue(v.c, update)
        updated == [pvc EXCEPT !.annotations = StripACMAnnotations(pvc.annotations)]
    IN IF v.c.err # "" THEN Result(v.c, FALSE, NoPVC, FALSE)
       ELSE IF MapHas(pvc.annotations, ReconcileOptionAnnotation)
               /\ pvc.annotations[ReconcileOptionAnnotation] # "merge"
       THEN Result(v.c, FALSE, NoPVC, FALSE)
       ELSE IF Fails(v.c, update)
       THEN Result(Err(c1, "error updating annotations on PVC to break appsub ownership"),
                   FALSE, NoPVC, FALSE)
       ELSE Result([c1 EXCEPT !.w.pvc[pvcName] = updated], TRUE, NoPVC, FALSE)

\* ------------------------------------------------------------------------
\* The claim restored from the latest snapshot of an RD
\* ------------------------------------------------------------------------
SnapshotGroupName == "snapshot.storage.k8s.io"
ClaimBound == "Bound"
ClaimPending == "Pending"

objectRefMatches(a, b) ==
    IF a.nil THEN b.nil
    ELSE IF b.nil THEN FALSE
    ELSE a.kind = b.kind /\ a.name = b.name

\* [c, latestImage]
getRDLatestImage(c, pvcName) ==
    LET name == getReplicationDestinationName(pvcName)
        get == <<"get", "rd", name>>
        c1 == Issue(c, get)
        rdInst == c.w.rd[name]
    IN IF Fails(c, get)
       THEN [c |-> Err(c1, "error getting replicationdestination"), latestImage |-> NilImage]
       ELSE IF ~rdInst.exists THEN [c |-> c1, latestImage |-> NilImage]
       ELSE [c |-> c1,
             latestImage |-> IF rdInst.status.present THEN rdInst.status.latestImage
                             ELSE NilImage]

\* [c, snap]: snap is the snapshot as the call now holds it
validateSnapshotAndAddDoNotDeleteLabel(c, volumeSnapshotRef) ==
    LET name == volumeSnapshotRef.name
        get == <<"get", "snapshot", name>>
        update == <<"update", "snapshot", name>>
        c1 == Issue(c, get)
        found == IF name \in DOMAIN c.w.snap THEN c.w.snap[name] ELSE NoSnapshot
        l == addLabel(found.labels, VolSyncDoNotDeleteLabel, VolSyncDoNotDeleteLabelVal)
        volSnap == [found EXCEPT !.labels = l.labels]
    IN IF Fails(c, get) \/ ~found.exists
       THEN [c |-> Err(c1, "error getting volumesnapshot"), snap |-> NoSnapshot]
       ELSE IF ~l.labelsUpdated THEN [c |-> c1, snap |-> volSnap]
       ELSE IF Fails(c1, update)
       THEN [c |-> Err(Issue(c1, update), "failed to add label to snapshot"),
             snap |-> NoSnapshot]
       ELSE [c |-> [Issue(c1, update) EXCEPT !.w.snap[name] = volSnap], snap |-> volSnap]

\* the merge of the descriptor's labels into the labels of the claim
MergeLabels(labels, more) ==
    [k \in DOMAIN labels \cup DOMAIN more |-> IF k \in DOMAIN more THEN more[k] ELSE labels[k]]


\* mutate function that points an existing claim at the desired snapshot in place
MutatePVC_Repoint(pvc, rdSpec, snapshotRef) ==
    LET accessModes == IF Len(rdSpec.accessModes) > 0 THEN rdSpec.accessModes
                       ELSE <<ReadWriteOnce>>
        labelled == [pvc EXCEPT !.labels = MergeLabels(pvc.labels, rdSpec.labels),
                                !.spec.dataSource = snapshotRef]
        immutable == IF ~pvc.exists
                     THEN [labelled EXCEPT !.spec.accessModes = accessModes,
                                           !.spec.storageClassName = rdSpec.sc]
                     ELSE labelled
    IN IF pvc.phase = ClaimBound /\ objectRefMatches(pvc.spec.dataSource, snapshotRef)
       THEN [pvc |-> pvc, pvcNeedsRecreation |-> FALSE]
       ELSE [pvc |-> [immutable EXCEPT !.spec.resources = rdSpec.capacity],
             pvcNeedsRecreation |-> FALSE]

\* mutate function without the test of the phase of the claim
MutatePVC_IgnorePhase(pvc, rdSpec, snapshotRef) ==
    LET accessModes == IF Len(rdSpec.accessModes) > 0 THEN rdSpec.accessModes
                       ELSE <<ReadWriteOnce>>
        labelled == [pvc EXCEPT !.labels = MergeLabels(pvc.labels, rdSpec.labels)]
        immutable == IF ~pvc.exists
                     THEN [labelled EXCEPT !.spec.accessModes = accessModes,
                                           !.spec.storageClassName = rdSpec.sc,
                                           !.spec.dataSource = snapshotRef]
                     ELSE labelled
    IN IF pvc.exists /\ ~objectRefMatches(pvc.spec.dataSource, snapshotRef)
       THEN [pvc |-> pvc, pvcNeedsRecreation |-> TRUE]
       ELSE [pvc |-> [immutable EXCEPT !.spec.resources = rdSpec.capacity],
             pvcNeedsRecreation |-> FALSE]

\* mutate function that writes the immutable fields on every call
MutatePVC_Patch(pvc, rdSpec, snapshotRef) ==
    LET accessModes == IF Len(rdSpec.accessModes) > 0 THEN rdSpec.accessModes
                       ELSE <<ReadWriteOnce>>
        labelled == [pvc EXCEPT !.labels = MergeLabels(pvc.labels, rdSpec.labels)]
        immutable == [labelled EXCEPT !.spec.accessModes = accessModes,
                                      !.spec.storageClassName = rdSpec.sc,
                                      !.spec.dataSource = snapshotRef]
    IN IF pvc.exists /\ ~objectRefMatches(pvc.spec.dataSource, snapshotRef)
       THEN [pvc |-> pvc, pvcNeedsRecreation |-> TRUE]
       ELSE IF pvc.phase = ClaimBound THEN [pvc |-> pvc, pvcNeedsRecreation |-> FALSE]
       ELSE [pvc |-> [immutable EXCEPT !.spec.resources = rdSpec.capacity],
             pvcNeedsRecreation |-> FALSE]

\* the mutate function of ensurePVCFromSnapshot applied to the claim CreateOrUpdate
\* read (NoPVC when there is none): [pvc, pvcNeedsRecreation]
MutatePVC(pvc, rdSpec, snapshotRef) ==
    LET accessModes == IF Len(rdSpec.accessModes) > 0 THEN rdSpec.accessModes
                       ELSE <<ReadWriteOnce>>
        labelled == [pvc EXCEPT !.labels = MergeLabels(pvc.labels, rdSpec.labels)]
        immutable == IF ~pvc.exists
                     THEN [labelled EXCEPT !.spec.accessModes = accessModes,
                                           !.spec.storageClassName = rdSpec.sc,
                                           !.spec.dataSource = snapshotRef]
                     ELSE labelled
    IN IF pvc.exists /\ ~objectRefMatches(pvc.spec.dataSource, snapshotRef)
       THEN [pvc |-> pvc, pvcNeedsRecreation |-> TRUE]
       ELSE IF pvc.phase = ClaimBound THEN [pvc |-> pvc, pvcNeedsRecreation |-> FALSE]
       ELSE [pvc |-> [immutable EXCEPT !.spec.resources = rdSpec.capacity],
             pvcNeedsRecreation |-> FALSE]

\* [c, pvc]: pvc is the claim returned, meaningful when c.err = ""
ensurePVCFromSnapshot(c, rdSpec, snapshotRef) ==
    LET name == rdSpec.name
        get == <<"get", "pvc", name>>
        create == <<"create", "pvc", name>>
        update == <<"update", "pvc", name>>
        delete == <<"delete", "pvc", name>>
        c1 == Issue(c, get)
        found == c.w.pvc[name]
        m == MutatePVC(found, rdSpec, snapshotRef)
        obj == [m.pvc EXCEPT !.exists = TRUE]
        failed == "error creating or updating PVC from snapshot"
        cu == IF Fails(c, get) THEN Err(c1, failed)
              ELSE IF ~found.exists
              THEN IF Fails(c1, create) THEN Err(Issue(c1, create), failed)
                   ELSE [Issue(c1, create) EXCEPT !.w.pvc[name] = obj]
              ELSE IF obj = found THEN c1
              ELSE IF Fails(c1, update) THEN Err(Issue(c1, update), failed)
              ELSE [Issue(c1, update) EXCEPT !.w.pvc[name] = obj]
        cd == Issue(cu, delete)
    IN IF cu.err # "" THEN [c |-> cu, pvc |-> NoPVC]
       ELSE IF m.pvcNeedsRecreation
       THEN [c |-> Err(IF Fails(cu, delete) THEN cd ELSE [cd EXCEPT !.w.pvc[name] = NoPVC],
                       "pvc has incorrect datasource, will need to delete and recreate"),
             pvc |-> NoPVC]
       ELSE [c |-> cu, pvc |-> obj]

\* obj is the snapshot the call holds, owner the name of the claim
addOwnerReferenceAndUpdate(c, snapName, obj, owner) ==
    LET r == addOwnerReference(obj.ownerRefs, owner)
        update == <<"update", "snapshot", snapName>>
        updated == [obj EXCEPT !.ownerRefs = r.refs]
    IN IF ~r.needsUpdate THEN c
       ELSE IF Fails(c, update)
       THEN Err(Issue(c, update), "failed to add owner reference")
       ELSE [Issue(c, update) EXCEPT !.w.snap[snapName] = updated]


\* validateSnapshotAndEnsurePVC that makes the claim before it labels the snapshot
validateSnapshotAndEnsurePVC_ClaimFirst(c, rdSpec, snapshotRef) ==
    LET p == ensurePVCFromSnapshot(c, rdSpec, snapshotRef)
        s == validateSnapshotAndAddDoNotDeleteLabel(p.c, snapshotRef)
    IN IF p.c.err # "" THEN p.c
       ELSE IF s.c.err # "" THEN s.c
       ELSE addOwnerReferenceAndUpdate(s.c, snapshotRef.name, s.snap, rdSpec.name)

validateSnapshotAndEnsurePVC(c, rdSpec, snapshotRef) ==
    LET s == validateSnapshotAndAddDoNotDeleteLabel(c, snapshotRef)
        p == ensurePVCFromSnapshot(s.c, rdSpec, snapshotRef)
    IN IF s.c.err # "" THEN s.c
       ELSE IF p.c.err # "" THEN p.c
       ELSE addOwnerReferenceAndUpdate(p.c, snapshotRef.name, s.snap, rdSpec.name)


\* EnsurePVCfromRD without the test of the latest image
EnsurePVCfromRD_AnyImage(c, rdSpec) ==
    LET i == getRDLatestImage(c, rdSpec.name)
        latestImage == i.latestImage
        vsImageRef == IF latestImage.apiGroup = ""
                      THEN [latestImage EXCEPT !.apiGroup = SnapshotGroupName]
                      ELSE latestImage
    IN IF i.c.err # "" THEN Result(i.c, FALSE, NoPVC, FALSE)
       ELSE Result(validateSnapshotAndEnsurePVC(i.c, rdSpec, vsImageRef), FALSE, NoPVC, FALSE)

EnsurePVCfromRD(c, rdSpec) ==
    LET i == getRDLatestImage(c, rdSpec.name)
        latestImage == i.latestImage
        vsImageRef == IF latestImage.apiGroup = ""
                      THEN [latestImage EXCEPT !.apiGroup = SnapshotGroupName]
                      ELSE latestImage
    IN IF i.c.err # "" THEN Result(i.c, FALSE, NoPVC, FALSE)
       ELSE IF ~isLatestImageReady(latestImage)
       THEN Result(Err(i.c, "unable to find LatestImage from ReplicationDestination"),
                   FALSE, NoPVC, FALSE)
       ELSE Result(validateSnapshotAndEnsurePVC(i.c, rdSpec, vsImageRef), FALSE, NoPVC, FALSE)

\* ------------------------------------------------------------------------
\* State
\* ------------------------------------------------------------------------
VARIABLES
    secret,     \* by secret name: the owner's transport secret
    rs,         \* by name: the ReplicationSource of that name in the namespace
    rd,         \* by name: the ReplicationDestination of that name
    se,         \* by RD name: the ServiceExport of that RD's local service
    pvc,        \* by name: the PersistentVolumeClaim of that name
    pods,       \* by claim name: how many pods of the namespace reference it
    snap,       \* by name: the VolumeSnapshot of that name
    handler,    \* by owner: the VSHandler working for that owner
    last,       \* the call that has just returned: its inputs, what it issued and
                \* what it returned; NoCall once the caller has taken the result
    drpolicies, \* by name: the DRPolicy of that name on the hub
    drpcs       \* by name: the DRPlacementControl of that name on the hub

vars == <<secret, rs, rd, se, pvc, pods, snap, handler, last, drpolicies, drpcs>>

objects == <<secret, rs, rd, se, pvc, snap>>

World ==
    [secret |-> secret, rs |-> rs, rd |-> rd, se |-> se, pvc |-> pvc, pods |-> pods,
     snap |-> snap]

\* the handler as constructed: the class list is not loaded until it is needed;
\* classes are the classes of the cluster that the handler's selector matches
NewVSHandler(schedulingInterval) ==
    [schedulingInterval |-> schedulingInterval, vscLoaded |-> FALSE,
     classes |-> SnapshotClasses]

\* the volume descriptors a caller passes
Descriptor(n, enabled, sc, accessModes) ==
    [name |-> n, enabled |-> enabled, sc |-> sc, accessModes |-> accessModes,
     capacity |-> "1Gi", labels |-> EmptyMap]

Descriptors ==
    UNION { { Descriptor(n, TRUE, "sc1", <<>>),
              Descriptor(n, FALSE, "sc1", <<>>),
              Descriptor(n, TRUE, "sc9", <<>>) } : n \in Protected }

\* The failure patterns of one call.  Only an operation the call issues can fail.  A
\* failed operation other than a swallowed one ends the call, so a set of failing
\* operations acts as its swallowed members plus the first of the others the call
\* reaches: the sets with at most one operation that is not swallowed stand for all.
\* log is the log of the call when nothing fails.
SwallowedFaults(log, swallowed) == SUBSET {x \in IssuedOps(log) : x[1] \in swallowed}

\* log is the log of the call when the swallowed operations of ds fail
WithEndingFault(ds, log, swallowed) ==
    {ds} \cup {ds \cup {x} : x \in {y \in IssuedOps(log) : y[1] \notin swallowed}}

NoCall ==
    [op |-> "", owner |-> "", d |-> Descriptor("", FALSE, "", <<>>), runFinalSync |-> FALSE,
     err |-> "", nonNil |-> FALSE, final |-> FALSE, obj |-> NoRS,
     log |-> <<>>, failed |-> {}, list |-> <<>>, before |-> <<>>]

\* what the caller sees of a call that ended with result r
Outcome(r, op, o, d, runFinalSync) ==
    [op |-> op, owner |-> o, d |-> d, runFinalSync |-> runFinalSync,
     err |-> r.c.err, nonNil |-> r.nonNil, final |-> r.final, obj |-> r.obj,
     log |-> r.c.log, failed |-> Failed(r.c), list |-> <<>>, before |-> <<>>]

\* the state after a call that ended with result r
Commit(r, op, o, d, runFinalSync) ==
    LET c == r.c
        w == c.w
    IN /\ secret' = w.secret
       /\ rs' = w.rs
       /\ rd' = w.rd
       /\ se' = w.se
       /\ pvc' = w.pvc
       /\ pods' = w.pods
       /\ snap' = w.snap
       /\ handler' = [handler EXCEPT ![o] = c.h]
       /\ UNCHANGED <<drpolicies, drpcs>>
       /\ last' = Outcome(r, op, o, d, runFinalSync)

Init ==
    /\ secret = [o \in Owners |-> NoSecret]
    /\ rs = [n \in Volumes |-> NoRS]
    /\ rd = [n \in Volumes |-> NoRD]
    /\ se = [n \in Volumes |-> NoSE]
    /\ pvc = [n \in Volumes |-> NoPVC]
    /\ pods = [n \in Volumes |-> 0]
    /\ snap = [s \in Snapshots |-> NoSnapshot]
    /\ handler = [o \in Owners |-> NewVSHandler(SchedulingInterval)]
    /\ last = NoCall
    /\ drpolicies = [p \in PolicyNames |-> NoDRPolicy]
    /\ drpcs = [x \in DRPCNames |-> NoDRPC]

\* Calls are serialized: the caller makes a call only after it has taken the result
\* of the previous one, and the cluster moves on between calls.
Idle == last = NoCall

\* ------------------------------------------------------------------------
\* Entry points
\* ------------------------------------------------------------------------
CallReconcileRD ==
    /\ Idle
    /\ \E o \in Callers, d \in Descriptors :
         LET Run(f) == ReconcileRD(NewCtx(World, handler[o], f), o, d)
             swallowed == {<<"delete", "rs", d.name>>}
         IN \E r0 \in {Run({})} :
              \E ds \in SwallowedFaults(r0.c.log, swallowed) :
                 \E r1 \in {Run(ds)} :
                    \E f \in WithEndingFault(ds, r1.c.log, swallowed) :
                       \E r \in {Run(f)} : Commit(r, "ReconcileRD", o, d, FALSE)

CallReconcileRS ==
    /\ Idle
    /\ \E o \in Callers, d \in Descriptors, runFinalSync \in BOOLEAN :
         LET Run(f) == ReconcileRS(NewCtx(World, handler[o], f), o, d, runFinalSync)
             swallowed == {<<"delete", "rd", d.name>>}
         IN \E r0 \in {Run({})} :
              \E ds \in SwallowedFaults(r0.c.log, swallowed) :
                 \E r1 \in {Run(ds)} :
                    \E f \in WithEndingFault(ds, r1.c.log, swallowed) :
                       \E r \in {Run(f)} : Commit(r, "ReconcileRS", o, d, runFinalSync)

\* ------------------------------------------------------------------------
\* The environment: the hub, the workload and the replication transport
\* ------------------------------------------------------------------------
\* the hub propagates the owner's secret to the cluster, or removes it
SecretPropagated ==
    /\ Idle
    /\ \E o \in Callers :
      /\ ~secret[o].exists
      /\ secret' = [secret EXCEPT ![o] = [exists |-> TRUE, ownerRefs |-> {}]]
      /\ UNCHANGED <<drpolicies, drpcs, rs, rd, se, pvc, pods, snap, handler, last>>

SecretRemoved ==
    /\ Idle
    /\ \E o \in Callers :
      /\ secret[o].exists
      /\ secret' = [secret EXCEPT ![o] = NoSecret]
      /\ UNCHANGED <<drpolicies, drpcs, rs, rd, se, pvc, pods, snap, handler, last>>

\* the workload creates its claim
ClaimCreated ==
    /\ Idle
    /\ \E n \in Protected :
      /\ ~pvc[n].exists
      /\ pvc' = [pvc EXCEPT ![n] = FreshPVC]
      /\ UNCHANGED <<drpolicies, drpcs, secret, rs, rd, se, pods, snap, handler, last>>

\* a pod that mounts the claim starts, or one stops
PodStarts ==
    /\ Idle
    /\ \E n \in Protected :
      /\ pods[n] < MaxPods
      /\ pods' = [pods EXCEPT ![n] = @ + 1]
      /\ UNCHANGED <<drpolicies, drpcs, secret, rs, rd, se, pvc, snap, handler, last>>

PodStops ==
    /\ Idle
    /\ \E n \in Protected :
      /\ pods[n] > 0
      /\ pods' = [pods EXCEPT ![n] = @ - 1]
      /\ UNCHANGED <<drpolicies, drpcs, secret, rs, rd, se, pvc, snap, handler, last>>

\* the transport starts to reconcile an RS: the RS gets a status
TransportSeesRS ==
    /\ Idle
    /\ \E n \in Protected :
      /\ rs[n].exists /\ ~rs[n].status.present
      /\ rs' = [rs EXCEPT ![n].status.present = TRUE]
      /\ UNCHANGED <<drpolicies, drpcs, secret, rd, se, pvc, pods, snap, handler, last>>

\* the transport completes a sync of an RS and, for a manual trigger, echoes it
TransportSyncsRS ==
    /\ Idle
    /\ \E n \in Protected :
      /\ rs[n].exists /\ rs[n].status.present
      /\ rs' = [rs EXCEPT ![n].status.lastSyncTime = "set",
                          ![n].status.lastManualSync =
                              IF rs[n].spec.trigger.manual # ""
                              THEN rs[n].spec.trigger.manual ELSE @]
      /\ UNCHANGED <<drpolicies, drpcs, secret, rd, se, pvc, pods, snap, handler, last>>

\* the images the transport can report as the latest of an RD
Images ==
    { NilImage,
      [nil |-> FALSE, apiGroup |-> "", kind |-> VolumeSnapshotKind, name |-> "snap1"],
      [nil |-> FALSE, apiGroup |-> "", kind |-> VolumeSnapshotKind, name |-> ""],
      [nil |-> FALSE, apiGroup |-> "", kind |-> "PersistentVolumeClaim", name |-> "snap1"] }

\* the transport writes the status of an RD: its address and its latest image
TransportWritesRD ==
    /\ Idle
    /\ \E n \in Protected, address \in BOOLEAN, image \in Images :
      /\ rd[n].exists
      /\ rd' = [rd EXCEPT ![n].status =
                   [present |-> TRUE, address |-> address, latestImage |-> image]]
      /\ rd' # rd
      /\ UNCHANGED <<drpolicies, drpcs, secret, rs, se, pvc, pods, snap, handler, last>>

\* the garbage collector removes a ServiceExport none of whose owners exists
GarbageCollect ==
    /\ Idle
    /\ \E n \in Protected :
      /\ se[n].exists
      /\ \A r \in se[n].ownerRefs : ~rd[r].exists
      /\ se' = [se EXCEPT ![n] = NoSE]
      /\ UNCHANGED <<drpolicies, drpcs, secret, rs, rd, pvc, pods, snap, handler, last>>

\* the caller constructs a new handler for its next reconcile
ConstructHandler ==
    /\ Idle
    /\ \E o \in Callers :
      /\ handler[o].vscLoaded
      /\ handler' = [handler EXCEPT
                       ![o] = [NewVSHandler(handler[o].schedulingInterval)
                                 EXCEPT !.classes = handler[o].classes]]
      /\ UNCHANGED <<drpolicies, drpcs, secret, rs, rd, se, pvc, pods, snap, last>>

\* the caller takes the result of the call that returned
TakeResult ==
    /\ ~Idle
    /\ last' = NoCall
    /\ UNCHANGED <<drpolicies, drpcs, secret, rs, rd, se, pvc, pods, snap, handler>>

Next ==
    \/ CallReconcileRD
    \/ CallReconcileRS
    \/ SecretPropagated
    \/ SecretRemoved
    \/ ClaimCreated
    \/ PodStarts
    \/ PodStops
    \/ TransportSeesRS
    \/ TransportSyncsRS
    \/ TransportWritesRD
    \/ GarbageCollect
    \/ ConstructHandler
    \/ TakeResult

Spec == Init /\ [][Next]_vars

\* ------------------------------------------------------------------------
\* The hand-over of the claim before the final sync
\* ------------------------------------------------------------------------
HostingSubscriptionAnnotation == <<"apps.open-cluster-management.io", "/hosting-subscription">>

\* a key that is the ACM prefix and nothing more
BareACMAnnotation == <<"apps.open-cluster-management.io">>

SelectedNodeAnnotation == <<"volume.kubernetes.io", "/selected-node">>

\* a key that holds the ACM domain, but not at its start
MirrorAnnotation == <<"mirror.", "apps.open-cluster-management.io", "/origin">>

Annotations(keys, option) ==
    [k \in keys |-> IF k = ReconcileOptionAnnotation THEN option ELSE "v"]

\* the annotations a claim carries when the subscription has deployed it
AnnotationSets ==
    { EmptyMap,
      Annotations({ReconcileOptionAnnotation}, "merge"),
      Annotations({ReconcileOptionAnnotation, SelectedNodeAnnotation}, "mergeAndOwn"),
      Annotations({ReconcileOptionAnnotation, HostingSubscriptionAnnotation,
                   BareACMAnnotation, SelectedNodeAnnotation, MirrorAnnotation}, "merge"),
      Annotations({ReconcileOptionAnnotation, HostingSubscriptionAnnotation,
                   MirrorAnnotation}, "mergeAndOwn"),
      Annotations({HostingSubscriptionAnnotation, BareACMAnnotation,
                   SelectedNodeAnnotation, MirrorAnnotation}, ""),
      Annotations({SelectedNodeAnnotation}, "") }

CallPreparePVCForFinalSync ==
    /\ Idle
    /\ \E o \in Owners, n \in Volumes :
         LET Run(f) == PreparePVCForFinalSync(NewCtx(World, handler[o], f), o, n)
         IN \E r0 \in {Run({})} :
              \E f \in WithEndingFault({}, r0.c.log, {}) :
                 \E r \in {Run(f)} :
                    Commit(r, "PreparePVCForFinalSync", o,
                           Descriptor(n, TRUE, "sc1", <<>>), FALSE)

\* the subscription deploys the claim of a volume
ClaimDeployed ==
    /\ Idle
    /\ \E n \in Volumes, a \in AnnotationSets :
      /\ ~pvc[n].exists
      /\ pvc' = [pvc EXCEPT ![n] = [FreshPVC EXCEPT !.annotations = a]]
      /\ UNCHANGED <<drpolicies, drpcs, secret, rs, rd, se, pods, snap, handler, last>>

\* the subscription changes the reconcile option of a claim it has deployed
ReconcileOptionSet ==
    /\ Idle
    /\ \E n \in Volumes, option \in {"merge", "mergeAndOwn"} :
      /\ pvc[n].exists
      /\ MapHas(pvc[n].annotations, ReconcileOptionAnnotation)
      /\ pvc[n].annotations[ReconcileOptionAnnotation] # option
      /\ pvc' = [pvc EXCEPT ![n].annotations[ReconcileOptionAnnotation] = option]
      /\ UNCHANGED <<drpolicies, drpcs, secret, rs, rd, se, pods, snap, handler, last>>

\* the claim is deleted
ClaimRemoved ==
    /\ Idle
    /\ \E n \in Volumes :
      /\ pvc[n].exists
      /\ pvc' = [pvc EXCEPT ![n] = NoPVC]
      /\ UNCHANGED <<drpolicies, drpcs, secret, rs, rd, se, pods, snap, handler, last>>

NextPrepare ==
    \/ CallPreparePVCForFinalSync
    \/ ClaimDeployed
    \/ ReconcileOptionSet
    \/ ClaimRemoved
    \/ TakeResult

SpecPrepare == Init /\ [][NextPrepare]_vars

\* ------------------------------------------------------------------------
\* Properties of ReconcileRD and ReconcileRS
\* ------------------------------------------------------------------------
\* obj is a child of owner o: it exists and carries o's owner label
Labelled(obj, o) ==
    obj.exists /\ MapHas(obj.labels, VRGOwnerLabel) /\ obj.labels[VRGOwnerLabel] = o

IsReconcile(l) == l.op \in {"ReconcileRD", "ReconcileRS"}

\* the positions of log at which a CreateOrUpdate of an object of kind acts
CreateOrUpdateAt(log, kind) ==
    {i \in DOMAIN log : log[i][2] = kind /\ log[i][1] \in {"get", "create", "update"}}

Writes(log, kind) ==
    \E i \in DOMAIN log : log[i][2] = kind /\ log[i][1] \in {"create", "update"}

Deletes(log, kind) == \E i \in DOMAIN log : log[i][2] = kind /\ log[i][1] = "delete"

\* the handler finds a snapshot class for the storage class
ClassResolves(sc) ==
    /\ sc \in DOMAIN StorageClasses
    /\ MatchSnapshotClass(SnapshotClasses, StorageClasses[sc], "") # ""

\* the call l, made with secrets sec: its descriptor is replication-enabled, the
\* owner's secret exists, a snapshot class matches and no operation it issued failed
Regular(l, sec) ==
    /\ l.d.enabled
    /\ sec[l.owner].exists
    /\ ClassResolves(l.d.sc)
    /\ l.failed = {}

FalseNilNil(l) == ~l.final /\ ~l.nonNil /\ l.err = ""

\* C1: in every state, for every volume, the RS and the RD that carry the same
\* owner's label do not both exist
C1_MutualExclusion ==
    \A o \in Owners, n \in Volumes : ~(Labelled(rs[n], o) /\ Labelled(rd[n], o))

\* C2: in a ReconcileRD call the list of the owner's RS objects comes before the
\* CreateOrUpdate of the RD and no RS is deleted after it has begun; in a ReconcileRS
\* call the same holds with the roles exchanged
C2_CleanupFirst ==
    LET Ordered(own, other) ==
          \A i \in CreateOrUpdateAt(last.log, own) :
             /\ \E j \in 1..(i - 1) : last.log[j] = <<"list", other, last.owner>>
             /\ \A j \in i..Len(last.log) :
                  ~(last.log[j][1] = "delete" /\ last.log[j][2] = other)
    IN /\ last.op = "ReconcileRD" => Ordered("rd", "rs")
       /\ last.op = "ReconcileRS" => Ordered("rs", "rd")

\* a ReconcileRD call has deleted the RS of its volume and then created the RD
C2_Witness ==
    /\ last.op = "ReconcileRD"
    /\ \E i, j \in DOMAIN last.log :
         /\ i < j
         /\ last.log[i] = <<"delete", "rs", last.d.name>>
         /\ last.log[j] = <<"create", "rd", last.d.name>>

\* C3: a regular ReconcileRS call with runFinalSync, made while the claim is not in use
\* and the status of the owner's RS reports the final-sync token as its last manual
\* sync, returns (true, that RS, nil), and after it the claim does not exist
C3_FinalSyncCompletes ==
    [][ (/\ last'.op = "ReconcileRS" /\ last'.runFinalSync
         /\ Regular(last', secret)
         /\ ~(pvc[last'.d.name].exists /\ pods[last'.d.name] > 0)
         /\ rs[last'.d.name].exists
         /\ rs[last'.d.name].ctrl = last'.owner
         /\ rs[last'.d.name].status.present
         /\ rs[last'.d.name].status.lastManualSync = FinalSyncTriggerString)
        => (/\ last'.final /\ last'.nonNil /\ last'.err = ""
            /\ last'.obj = rs'[last'.d.name]
            /\ ~pvc'[last'.d.name].exists) ]_vars

\* a final sync has completed: the call returned true with the RS and deleted the claim
C3_Witness ==
    /\ last.op = "ReconcileRS" /\ last.runFinalSync
    /\ last.final /\ last.nonNil /\ last.err = ""
    /\ rs[last.d.name].status.lastManualSync = FinalSyncTriggerString
    /\ \E i \in DOMAIN last.log : last.log[i] = <<"delete", "pvc", last.d.name>>
    /\ ~pvc[last.d.name].exists

\* C4: a ReconcileRS call with runFinalSync made while the claim exists and a pod
\* references it neither creates nor updates the RS nor deletes the claim, and, when its
\* descriptor is replication-enabled and no operation fails, it returns (false, nil, nil)
C4_InUseGate ==
    [][ (/\ last'.op = "ReconcileRS" /\ last'.runFinalSync
         /\ pvc[last'.d.name].exists /\ pods[last'.d.name] > 0)
        => (/\ rs' = rs /\ ~Writes(last'.log, "rs")
            /\ pvc' = pvc /\ ~Deletes(last'.log, "pvc")
            /\ (last'.d.enabled /\ last'.failed = {}) => FalseNilNil(last')) ]_vars

\* the final sync of a volume with an RS was asked for while a pod used the claim
C4_Witness ==
    /\ last.op = "ReconcileRS" /\ last.runFinalSync /\ FalseNilNil(last)
    /\ pvc[last.d.name].exists /\ pods[last.d.name] > 0
    /\ rs[last.d.name].exists
    /\ \E i \in DOMAIN last.log : last.log[i] = <<"list", "pod", last.d.name>>

\* C5: ReconcileRS returns a non-nil RS only if the status of that RS has a last sync
\* time that is neither nil nor zero, and a call that returns no error and no RS returns
\* false
C5_SourceOnlyAfterSync ==
    last.op = "ReconcileRS" =>
      LET r == rs[last.d.name]
      IN /\ last.nonNil => (/\ last.obj = r /\ r.exists /\ r.status.present
                            /\ r.status.lastSyncTime \notin {"nil", "zero"})
         /\ (last.err = "" /\ ~last.nonNil) => ~last.final

\* ReconcileRS has returned an RS that has synced
C5_Witness ==
    /\ last.op = "ReconcileRS" /\ last.nonNil /\ last.err = ""
    /\ last.obj.status.lastSyncTime = "set"

C7_MissingSecret ==
    [][ (IsReconcile(last') /\ ~secret[last'.owner].exists)
        => (/\ UNCHANGED <<drpolicies, drpcs, secret, rs, rd, se, pvc, pods, snap>>
            /\ \A i \in DOMAIN last'.log :
                 /\ last'.log[i][1] \notin {"create", "update", "delete"}
                 /\ last'.log[i][2] # "pvc"
            /\ (last'.d.enabled /\ last'.failed = {}) => FalseNilNil(last')) ]_vars

\* ReconcileRD was called for a volume that has an RS while the secret was missing
C7_Witness ==
    /\ last.op = "ReconcileRD" /\ last.d.enabled /\ FalseNilNil(last)
    /\ ~secret[last.owner].exists
    /\ rs[last.d.name].exists
    /\ last.log = <<<<"get", "secret", last.owner>>>>

\* C8: a ReconcileRD or ReconcileRS call with a descriptor that is not
\* replication-enabled returns an error and no object, issues no operation and changes
\* no object
C8_NotEnabled ==
    [][ (IsReconcile(last') /\ ~last'.d.enabled)
        => (/\ last'.err # "" /\ ~last'.nonNil /\ ~last'.final
            /\ last'.log = <<>>
            /\ UNCHANGED <<drpolicies, drpcs, secret, rs, rd, se, pvc, pods, snap>>) ]_vars

\* ReconcileRD was refused for a volume that has an RS and whose secret is in place
C8_Witness ==
    /\ last.op = "ReconcileRD" /\ ~last.d.enabled /\ last.err # ""
    /\ secret[last.owner].exists
    /\ rs[last.d.name].exists

\* ------------------------------------------------------------------------
\* Properties of PreparePVCForFinalSync
\* ------------------------------------------------------------------------
IsACM(k) == HasPrefix(k, ACMAnnotationPrefix)

\* C9: a PreparePVCForFinalSync call on a claim whose reconcile-option annotation is
\* present and is not "merge" leaves the annotations of the claim as they are and, when
\* no operation fails, returns (false, nil); on a claim where it is absent or "merge",
\* when no operation fails, it returns (true, nil), and after it the claim has no
\* annotation with the ACM prefix and has each of its other annotations with its value
C9_ReconcileOptionGate ==
    [][ (last'.op = "PreparePVCForFinalSync" /\ pvc[last'.d.name].exists)
        => LET a == pvc[last'.d.name].annotations
               b == pvc'[last'.d.name].annotations
           IN IF MapHas(a, ReconcileOptionAnnotation)
                 /\ a[ReconcileOptionAnnotation] # "merge"
              THEN /\ b = a
                   /\ last'.failed = {} => (~last'.final /\ last'.err = "")
              ELSE last'.failed = {} =>
                     /\ last'.final /\ last'.err = ""
                     /\ \A k \in DOMAIN b : ~IsACM(k)
                     /\ \A k \in DOMAIN a : ~IsACM(k) => (k \in DOMAIN b /\ b[k] = a[k])
      ]_vars

\* a claim has been handed over: its ACM annotations are gone and the others are there
C9_Witness ==
    /\ last.op = "PreparePVCForFinalSync" /\ last.final /\ last.err = ""
    /\ DOMAIN pvc[last.d.name].annotations = {SelectedNodeAnnotation, MirrorAnnotation}
    /\ Len(last.log) = 3

\* C10: a PreparePVCForFinalSync call on a claim that does not exist returns false and
\* an error, issues no create or update and changes no object
C10_MissingClaim ==
    [][ (last'.op = "PreparePVCForFinalSync" /\ ~pvc[last'.d.name].exists)
        => (/\ ~last'.final /\ last'.err # ""
            /\ \A i \in DOMAIN last'.log : last'.log[i][1] \notin {"create", "update"}
            /\ UNCHANGED <<drpolicies, drpcs, secret, rs, rd, se, pvc, pods, snap>>) ]_vars

\* the call was made for a claim that does not exist while another claim does
C10_Witness ==
    /\ last.op = "PreparePVCForFinalSync" /\ ~last.final /\ last.err # ""
    /\ last.failed = {}
    /\ ~pvc[last.d.name].exists
    /\ \E n \in Volumes : pvc[n].exists

\* the claim p carries the do-not-delete label and an owner reference to owner o
Stamped(p, o) ==
    /\ p.exists
    /\ MapHas(p.labels, ACMAppSubDoNotDeleteLabel)
    /\ p.labels[ACMAppSubDoNotDeleteLabel] = ACMAppSubDoNotDeleteLabelVal
    /\ o \in p.ownerRefs

\* the reconcile-option annotation of claim p tells the call to wait
MustWait(p) ==
    /\ MapHas(p.annotations, ReconcileOptionAnnotation)
    /\ p.annotations[ReconcileOptionAnnotation] # "merge"

UpdatesIn(log, kind) ==
    Len(SelectSeq(log, LAMBDA op : op[1] = "update" /\ op[2] = kind))

\* C11: a PreparePVCForFinalSync call on an existing claim that returns no error leaves
\* the claim with the do-not-delete label and an owner reference to the owner; the call
\* issues an update for the stamping only if the claim lacked the label or the
\* reference; a call on a stamped claim that must wait issues nothing but the get of the
\* claim and changes nothing
C11_StampOnce ==
    [][ (last'.op = "PreparePVCForFinalSync" /\ pvc[last'.d.name].exists)
        => LET p == pvc[last'.d.name]
               stamped == Stamped(p, last'.owner)
           IN /\ last'.err = "" => Stamped(pvc'[last'.d.name], last'.owner)
              /\ UpdatesIn(last'.log, "pvc") <=
                   (IF stamped THEN 0 ELSE 1) + (IF MustWait(p) THEN 0 ELSE 1)
              /\ (stamped /\ MustWait(p))
                   => (/\ \A i \in DOMAIN last'.log : last'.log[i][1] = "get"
                       /\ UNCHANGED <<drpolicies, drpcs, secret, rs, rd, se, pvc, pods, snap>>
                       /\ last'.failed = {} => (~last'.final /\ last'.err = ""))
      ]_vars

\* a call on a claim that was stamped before and must wait has returned (false, nil)
C11_Witness ==
    /\ last.op = "PreparePVCForFinalSync" /\ ~last.final /\ last.err = ""
    /\ last.log = <<<<"get", "pvc", last.d.name>>>>
    /\ Stamped(pvc[last.d.name], last.owner)
    /\ MustWait(pvc[last.d.name])

\* ------------------------------------------------------------------------
\* The in-use check on its own
\* ------------------------------------------------------------------------
CallPvcExistsAndInUse ==
    /\ Idle
    /\ \E o \in Owners, n \in Volumes :
         LET Run(f) == pvcExistsAndInUse(NewCtx(World, handler[o], f), n)
         IN \E r0 \in {Run({})} :
              \E f \in WithEndingFault({}, r0.c.log, {}) :
                 \E r \in {Run(f)} :
                    Commit(Result(r.c, r.inUse, NoPVC, FALSE), "pvcExistsAndInUse", o,
                           Descriptor(n, TRUE, "sc1", <<>>), FALSE)

\* a pod that references the name of a claim appears, whether or not the claim exists
PodCreated ==
    /\ Idle
    /\ \E n \in Volumes :
      /\ pods[n] < MaxPods
      /\ pods' = [pods EXCEPT ![n] = @ + 1]
      /\ UNCHANGED <<drpolicies, drpcs, secret, rs, rd, se, pvc, snap, handler, last>>

PodDeleted ==
    /\ Idle
    /\ \E n \in Volumes :
      /\ pods[n] > 0
      /\ pods' = [pods EXCEPT ![n] = @ - 1]
      /\ UNCHANGED <<drpolicies, drpcs, secret, rs, rd, se, pvc, snap, handler, last>>

NextInUse ==
    \/ CallPvcExistsAndInUse
    \/ ClaimDeployed
    \/ ClaimRemoved
    \/ PodCreated
    \/ PodDeleted
    \/ TakeResult

SpecInUse == Init /\ [][NextInUse]_vars

\* C12: pvcExistsAndInUse returns (false, nil) when the claim does not exist, whatever
\* the number of pods that reference its name; when the claim exists and the list of
\* the pods does not fail it returns true exactly when at least one pod references the
\* name; when the get of the claim fails it returns an error; it changes nothing
C12_InUseCheck ==
    [][ last'.op = "pvcExistsAndInUse"
        => LET n == last'.d.name
               getFailed == <<"get", "pvc", n>> \in last'.failed
           IN /\ (~pvc[n].exists /\ ~getFailed) => (~last'.final /\ last'.err = "")
              /\ (pvc[n].exists /\ last'.failed = {})
                   => (last'.err = "" /\ (last'.final <=> pods[n] > 0))
              /\ getFailed => (last'.err # "" /\ ~last'.final)
              /\ UNCHANGED <<drpolicies, drpcs, secret, rs, rd, se, pvc, pods, snap>>
      ]_vars

\* pvcExistsAndInUse has answered false for a claim that does not exist while a pod names it
C12_Witness ==
    /\ last.op = "pvcExistsAndInUse" /\ ~last.final /\ last.err = ""
    /\ ~pvc[last.d.name].exists
    /\ pods[last.d.name] > 0

\* ------------------------------------------------------------------------
\* The claim restored from the latest snapshot
\* ------------------------------------------------------------------------
AppLabel == [k \in {"app"} |-> "db"]

\* the descriptors EnsurePVCfromRD is called with: they differ in every field the
\* claim takes from them
EnsureDescriptors ==
    UNION { { Descriptor(n, TRUE, "sc1", <<>>),
              [Descriptor(n, TRUE, "sc9", <<ReadWriteMany>>)
                 EXCEPT !.capacity = "2Gi", !.labels = AppLabel] } : n \in Protected }

\* the latest images of an RD from which a claim is restored
EnsureImages ==
    { NilImage,
      [nil |-> FALSE, apiGroup |-> "", kind |-> VolumeSnapshotKind, name |-> "snap1"],
      [nil |-> FALSE, apiGroup |-> SnapshotGroupName, kind |-> VolumeSnapshotKind,
       name |-> "snap2"],
      [nil |-> FALSE, apiGroup |-> "", kind |-> VolumeSnapshotKind, name |-> ""],
      [nil |-> FALSE, apiGroup |-> "", kind |-> "PersistentVolumeClaim", name |-> "snap1"] }

CallEnsurePVCfromRD ==
    /\ Idle
    /\ \E o \in Callers, d \in EnsureDescriptors :
         LET Run(f) == EnsurePVCfromRD(NewCtx(World, handler[o], f), d)
             swallowed == {<<"delete", "pvc", d.name>>}
         IN \E r0 \in {Run({})} :
              \E ds \in SwallowedFaults(r0.c.log, swallowed) :
                 \E r1 \in {Run(ds)} :
                    \E f \in WithEndingFault(ds, r1.c.log, swallowed) :
                       \E r \in {Run(f)} : Commit(r, "EnsurePVCfromRD", o, d, FALSE)

\* an earlier reconcile has created the RD of the volume
DestinationReconciled ==
    /\ Idle
    /\ \E o \in Callers, n \in Protected :
      /\ ~rd[n].exists
      /\ rd' = createOrUpdateRD(NewCtx(World, handler[o], {}), o,
                                Descriptor(n, TRUE, "sc1", <<>>),
                                GetVolSyncSSHSecretNameFromVRGName(o)).c.w.rd
      /\ UNCHANGED <<drpolicies, drpcs, secret, rs, se, pvc, pods, snap, handler, last>>

\* an earlier cleanup has deleted the RD of the volume
DestinationDeleted ==
    /\ Idle
    /\ \E n \in Protected :
      /\ rd[n].exists
      /\ rd' = [rd EXCEPT ![n] = NoRD]
      /\ UNCHANGED <<drpolicies, drpcs, secret, rs, se, pvc, pods, snap, handler, last>>

\* the transport reports the latest image of an RD
TransportReportsImage ==
    /\ Idle
    /\ \E n \in Protected, image \in EnsureImages :
      /\ rd[n].exists
      /\ rd' = [rd EXCEPT ![n].status =
                   [present |-> TRUE, address |-> TRUE, latestImage |-> image]]
      /\ rd' # rd
      /\ UNCHANGED <<drpolicies, drpcs, secret, rs, se, pvc, pods, snap, handler, last>>

\* the transport takes a snapshot
SnapshotTaken ==
    /\ Idle
    /\ \E s \in Snapshots :
      /\ ~snap[s].exists
      /\ snap' = [snap EXCEPT ![s] = [NoSnapshot EXCEPT !.exists = TRUE]]
      /\ UNCHANGED <<drpolicies, drpcs, secret, rs, rd, se, pvc, pods, handler, last>>

\* a snapshot is deleted
SnapshotRemoved ==
    /\ Idle
    /\ \E s \in Snapshots :
      /\ snap[s].exists
      /\ snap' = [snap EXCEPT ![s] = NoSnapshot]
      /\ UNCHANGED <<drpolicies, drpcs, secret, rs, rd, se, pvc, pods, handler, last>>

\* the cluster moves a claim towards Bound
ClaimPhaseAdvances ==
    /\ Idle
    /\ \E n \in Protected, phase \in {ClaimPending, ClaimBound} :
      /\ pvc[n].exists
      /\ pvc[n].phase # ClaimBound
      /\ pvc[n].phase # phase
      /\ pvc' = [pvc EXCEPT ![n].phase = phase]
      /\ UNCHANGED <<drpolicies, drpcs, secret, rs, rd, se, pods, snap, handler, last>>

NextEnsure ==
    \/ CallEnsurePVCfromRD
    \/ DestinationReconciled
    \/ DestinationDeleted
    \/ TransportReportsImage
    \/ SnapshotTaken
    \/ SnapshotRemoved
    \/ ClaimCreated
    \/ ClaimRemoved
    \/ ClaimPhaseAdvances
    \/ TakeResult

SpecEnsure == Init /\ [][NextEnsure]_vars

\* the latest image of the RD of volume n names a snapshot a claim can be made from
ImageUsable(n) ==
    /\ rd[n].exists
    /\ rd[n].status.present
    /\ ~rd[n].status.latestImage.nil
    /\ rd[n].status.latestImage.name # ""
    /\ rd[n].status.latestImage.kind = VolumeSnapshotKind

\* the data source a of a claim is the snapshot that image b names
SourcedFrom(a, b) == ~a.nil /\ a.kind = b.kind /\ a.name = b.name

\* the positions of log at which an operation of verbs on an object of kind is issued
IssuedAt(log, verbs, kind) == {i \in DOMAIN log : log[i][1] \in verbs /\ log[i][2] = kind}

RecreationError == "pvc has incorrect datasource, will need to delete and recreate"

\* C13: an EnsurePVCfromRD call that finds a claim whose data source is not the latest
\* snapshot B of the RD returns an error and neither creates nor updates the claim: the
\* claim is deleted or, when the delete fails, left as it was; when no operation fails
\* the claim is gone and the error is the recreation-required one.  A call that finds
\* no claim and in which no operation fails returns nil and has created a claim whose
\* data source is B.
C13_ReplaceNotPatch ==
    [][ (/\ last'.op = "EnsurePVCfromRD"
         /\ ImageUsable(last'.d.name)
         /\ snap[rd[last'.d.name].status.latestImage.name].exists)
        => LET n == last'.d.name
               B == rd[n].status.latestImage
           IN /\ (pvc[n].exists /\ ~SourcedFrom(pvc[n].spec.dataSource, B))
                   => /\ last'.err # ""
                      /\ IssuedAt(last'.log, {"create", "update"}, "pvc") = {}
                      /\ pvc'[n] = pvc[n] \/ pvc'[n] = NoPVC
                      /\ last'.failed = {}
                           => (/\ last'.err = RecreationError
                               /\ IssuedAt(last'.log, {"delete"}, "pvc") # {}
                               /\ ~pvc'[n].exists)
              /\ (~pvc[n].exists /\ last'.failed = {})
                   => /\ last'.err = ""
                      /\ IssuedAt(last'.log, {"create"}, "pvc") # {}
                      /\ pvc'[n].exists
                      /\ SourcedFrom(pvc'[n].spec.dataSource, B)
      ]_vars

\* a call has deleted a claim that was made from another snapshot than the latest
C13_Witness ==
    /\ last.op = "EnsurePVCfromRD" /\ last.err = RecreationError
    /\ last.log[Len(last.log)] = <<"delete", "pvc", last.d.name>>
    /\ last.failed = {}
    /\ ~pvc[last.d.name].exists

C15_ImmutableFields ==
    [][ last'.op = "EnsurePVCfromRD"
        => LET n == last'.d.name
               d == last'.d
               B == rd[n].status.latestImage
           IN /\ (pvc[n].exists /\ pvc'[n].exists)
                   => /\ pvc'[n].spec.accessModes = pvc[n].spec.accessModes
                      /\ pvc'[n].spec.storageClassName = pvc[n].spec.storageClassName
                      /\ pvc'[n].spec.dataSource = pvc[n].spec.dataSource
              /\ (~pvc[n].exists /\ pvc'[n].exists)
                   => /\ IssuedAt(last'.log, {"create"}, "pvc") # {}
                      /\ pvc'[n].spec.accessModes =
                           (IF d.accessModes = <<>> THEN <<ReadWriteOnce>> ELSE d.accessModes)
                      /\ pvc'[n].spec.storageClassName = d.sc
                      /\ SourcedFrom(pvc'[n].spec.dataSource, B)
                      /\ pvc'[n].spec.resources = d.capacity
              /\ (pvc[n].exists /\ pvc[n].phase # ClaimBound /\ last'.err = "")
                   => /\ pvc'[n].spec.resources = d.capacity
                      /\ pvc[n].spec.resources # d.capacity
                           => IssuedAt(last'.log, {"update"}, "pvc") # {}
      ]_vars

\* a call has updated the resources of a claim whose storage class and access modes
\* are not those of the descriptor of the call
C15_Witness ==
    /\ last.op = "EnsurePVCfromRD" /\ last.err = ""
    /\ IssuedAt(last.log, {"update"}, "pvc") # {}
    /\ pvc[last.d.name].spec.storageClassName # last.d.sc
    /\ pvc[last.d.name].spec.accessModes # last.d.accessModes
    /\ pvc[last.d.name].spec.resources = last.d.capacity

\* C16: an EnsurePVCfromRD call returns an error, issues nothing but the get of the RD
\* and changes no object when the RD does not exist, has no status, has no latest
\* image, or has one with an empty name or a kind other than VolumeSnapshot; it returns
\* an error, creates no claim and changes no object when the snapshot does not exist
C16_NothingToRestore ==
    [][ last'.op = "EnsurePVCfromRD"
        => LET n == last'.d.name
               image == rd[n].status.latestImage
               unusable == \/ ~rd[n].exists
                           \/ ~rd[n].status.present
                           \/ image.nil
                           \/ image.name = ""
                           \/ image.kind # VolumeSnapshotKind
           IN /\ unusable
                   => /\ last'.err # ""
                      /\ last'.log = <<<<"get", "rd", n>>>>
                      /\ UNCHANGED <<drpolicies, drpcs, secret, rs, rd, se, pvc, pods, snap>>
              /\ (~unusable /\ ~snap[image.name].exists)
                   => /\ last'.err # ""
                      /\ \A i \in DOMAIN last'.log : last'.log[i][1] = "get"
                      /\ UNCHANGED <<drpolicies, drpcs, secret, rs, rd, se, pvc, pods, snap>>
      ]_vars

\* a call has returned an error for a latest image that is not a snapshot, while a
\* snapshot of the name the image carries exists
C16_Witness ==
    /\ last.op = "EnsurePVCfromRD" /\ last.err # "" /\ last.failed = {}
    /\ rd[last.d.name].exists
    /\ rd[last.d.name].status.present
    /\ rd[last.d.name].status.latestImage.kind = "PersistentVolumeClaim"
    /\ snap[rd[last.d.name].status.latestImage.name].exists

\* C17: after an EnsurePVCfromRD call that returns nil the snapshot the latest image
\* names carries the label volsync.backube/do-not-delete=true and an owner reference
\* to the claim; in every call a create or an update of the claim comes after the
\* label is on the snapshot
C17_SnapshotKept ==
    [][ (last'.op = "EnsurePVCfromRD" /\ ImageUsable(last'.d.name))
        => LET n == last'.d.name
               B == rd[n].status.latestImage.name
               labelled(s) == /\ s.exists
                              /\ MapHas(s.labels, "volsync.backube/do-not-delete")
                              /\ s.labels["volsync.backube/do-not-delete"] = "true"
           IN /\ last'.err = ""
                   => (labelled(snap'[B]) /\ n \in snap'[B].ownerRefs /\ pvc'[n].exists)
              /\ \A i \in IssuedAt(last'.log, {"create", "update"}, "pvc") :
                   \/ labelled(snap[B])
                   \/ \E j \in 1..(i - 1) : last'.log[j] = <<"update", "snapshot", B>>
      ]_vars

\* a call has labelled the snapshot, then created the claim, then added the owner
\* reference
C17_Witness ==
    /\ last.op = "EnsurePVCfromRD" /\ last.err = ""
    /\ \E i, j, k \in DOMAIN last.log :
         /\ i < j /\ j < k
         /\ last.log[i][1] = "update" /\ last.log[i][2] = "snapshot"
         /\ last.log[j] = <<"create", "pvc", last.d.name>>
         /\ last.log[k] = last.log[i]

\* ------------------------------------------------------------------------
\* Cleanup of the children of an owner
\* ------------------------------------------------------------------------
\* the lists of descriptors CleanupRDNotInSpecList is called with
SpecLists ==
    { <<>>,
      <<Descriptor("pvc1", TRUE, "sc1", <<>>)>>,
      <<Descriptor("pvc2", TRUE, "sc1", <<>>)>>,
      <<Descriptor("pvc1", TRUE, "sc1", <<>>), Descriptor("pvc2", TRUE, "sc1", <<>>)>> }

\* the deletes of the children: the ones a cleanup logs and goes on from
ChildDeletes == {<<"delete", k, n>> : k \in {"rs", "rd"}, n \in Volumes}

\* the state after a cleanup call of owner o that ended with context c
CommitCleanup(c, op, o, n, rdSpecList) ==
    /\ rs' = c.w.rs
    /\ rd' = c.w.rd
    /\ last' = [Outcome(Result(c, FALSE, NoRD, FALSE), op, o,
                        Descriptor(n, TRUE, "sc1", <<>>), FALSE)
                   EXCEPT !.list = rdSpecList]
    /\ UNCHANGED <<drpolicies, drpcs, secret, se, pvc, pods, snap, handler>>

CallDeleteRS ==
    /\ Idle
    /\ \E o \in Owners, n \in Volumes :
         LET Run(f) == DeleteRS(NewCtx(World, handler[o], f), o, n)
         IN \E r0 \in {Run({})} :
              \E ds \in SwallowedFaults(r0.log, ChildDeletes) :
                 \E r1 \in {Run(ds)} :
                    \E f \in WithEndingFault(ds, r1.log, ChildDeletes) :
                       \E r \in {Run(f)} : CommitCleanup(r, "DeleteRS", o, n, <<>>)

CallDeleteRD ==
    /\ Idle
    /\ \E o \in Owners, n \in Volumes :
         LET Run(f) == DeleteRD(NewCtx(World, handler[o], f), o, n)
         IN \E r0 \in {Run({})} :
              \E ds \in SwallowedFaults(r0.log, ChildDeletes) :
                 \E r1 \in {Run(ds)} :
                    \E f \in WithEndingFault(ds, r1.log, ChildDeletes) :
                       \E r \in {Run(f)} : CommitCleanup(r, "DeleteRD", o, n, <<>>)

CallCleanupRDNotInSpecList ==
    /\ Idle
    /\ \E o \in Owners, rdSpecList \in SpecLists :
         LET Run(f) == CleanupRDNotInSpecList(NewCtx(World, handler[o], f), o, rdSpecList)
         IN \E r0 \in {Run({})} :
              \E ds \in SwallowedFaults(r0.log, ChildDeletes) :
                 \E r1 \in {Run(ds)} :
                    \E f \in WithEndingFault(ds, r1.log, ChildDeletes) :
                       \E r \in {Run(f)} :
                          CommitCleanup(r, "CleanupRDNotInSpecList", o, "", rdSpecList)

\* an earlier reconcile of an owner has created the RS of a volume
SourceMade ==
    /\ Idle
    /\ \E o \in Owners, n \in Volumes :
      /\ ~rs[n].exists
      /\ rs' = createOrUpdateRS(NewCtx(World, handler[o], {}), o,
                                Descriptor(n, TRUE, "sc1", <<>>),
                                GetVolSyncSSHSecretNameFromVRGName(o), FALSE).c.w.rs
      /\ UNCHANGED <<drpolicies, drpcs, secret, rd, se, pvc, pods, snap, handler, last>>

\* an earlier reconcile of an owner has created the RD of a volume
DestinationMade ==
    /\ Idle
    /\ \E o \in Owners, n \in Volumes :
      /\ ~rd[n].exists
      /\ rd' = createOrUpdateRD(NewCtx(World, handler[o], {}), o,
                                Descriptor(n, TRUE, "sc1", <<>>),
                                GetVolSyncSSHSecretNameFromVRGName(o)).c.w.rd
      /\ UNCHANGED <<drpolicies, drpcs, secret, rs, se, pvc, pods, snap, handler, last>>

NextCleanup ==
    \/ CallDeleteRS
    \/ CallDeleteRD
    \/ CallCleanupRDNotInSpecList
    \/ SourceMade
    \/ DestinationMade
    \/ TakeResult

SpecCleanup == Init /\ [][NextCleanup]_vars

IsCleanup(l) == l.op \in {"DeleteRS", "DeleteRD", "CleanupRDNotInSpecList"}

\* the names of the objects of objs that carry the label of owner o
OwnedBy(objs, o) ==
    {n \in Volumes : /\ objs[n].exists
                     /\ MapHas(objs[n].labels, "volumereplicationgroups-owner")
                     /\ objs[n].labels["volumereplicationgroups-owner"] = o}

\* the names a cleanup call l ought to delete, among the objects objs of its kind
Candidates(l, objs) ==
    IF l.op = "CleanupRDNotInSpecList"
    THEN {n \in OwnedBy(objs, l.owner) : \A i \in DOMAIN l.list : l.list[i].name # n}
    ELSE OwnedBy(objs, l.owner) \cap {l.d.name}

\* C18: DeleteRS, DeleteRD and CleanupRDNotInSpecList return an error exactly when the
\* list by the owner's label fails, whatever deletes fail; when the list succeeds a
\* delete is issued for every candidate, also after a delete that failed
C18_BestEffort ==
    [][ IsCleanup(last')
        => LET kind == IF last'.op = "DeleteRS" THEN "rs" ELSE "rd"
               objs == IF last'.op = "DeleteRS" THEN rs ELSE rd
               list == <<"list", kind, last'.owner>>
           IN /\ last'.err # "" <=> list \in last'.failed
              /\ list \in last'.failed
                   => (last'.log = <<list>> /\ UNCHANGED <<drpolicies, drpcs, secret, rs, rd, se, pvc, pods, snap>>)
              /\ list \notin last'.failed
                   => \A n \in Candidates(last', objs) :
                         \E i \in DOMAIN last'.log : last'.log[i] = <<"delete", kind, n>>
      ]_vars

\* a cleanup has returned nil after its first delete failed and its second one did not
C18_Witness ==
    /\ last.op = "CleanupRDNotInSpecList" /\ last.err = ""
    /\ Len(last.log) = 3
    /\ last.log[2] \in last.failed
    /\ last.log[3] \notin last.failed
    /\ rd[last.log[2][3]].exists
    /\ ~rd[last.log[3][3]].exists

\* C19: a CleanupRDNotInSpecList call whose list by label succeeds issues one delete
\* for each RD that carries the owner's label and is named by no descriptor of the
\* list, and issues nothing else; every RD the list names, every RD of another owner
\* and every RS is after the call as it was before; the RDs whose delete did not fail
\* are gone
C19_CleanupExact ==
    [][ last'.op = "CleanupRDNotInSpecList"
        => LET o == last'.owner
               named == {last'.list[i].name : i \in DOMAIN last'.list}
               mine == {n \in Volumes : /\ rd[n].exists
                                        /\ MapHas(rd[n].labels, "volumereplicationgroups-owner")
                                        /\ rd[n].labels["volumereplicationgroups-owner"] = o}
               deleted == {last'.log[i][3] : i \in IssuedAt(last'.log, {"delete"}, "rd")}
           IN /\ <<"list", "rd", o>> \notin last'.failed
                   => /\ deleted = mine \ named
                      /\ Len(last'.log) = 1 + Cardinality(mine \ named)
                      /\ \A n \in mine \ named :
                            <<"delete", "rd", n>> \notin last'.failed => ~rd'[n].exists
              /\ \A n \in Volumes : (n \in named \/ n \notin mine) => rd'[n] = rd[n]
              /\ UNCHANGED <<drpolicies, drpcs, secret, rs, se, pvc, pods, snap>>
      ]_vars

\* a cleanup with an empty list has deleted the owner's RD and left the RD of the other
\* owner and an RS of its own
C19_Witness ==
    /\ last.op = "CleanupRDNotInSpecList" /\ last.err = "" /\ last.list = <<>>
    /\ last.failed = {}
    /\ IssuedAt(last.log, {"delete"}, "rd") # {}
    /\ \E n \in Volumes : rd[n].exists /\ rd[n].labels["volumereplicationgroups-owner"] # last.owner
    /\ \E n \in Volumes : rs[n].exists /\ rs[n].labels["volumereplicationgroups-owner"] = last.owner

\* ------------------------------------------------------------------------
\* A reconcile called twice in succession
\* ------------------------------------------------------------------------
\* what the second of two calls in succession keeps of the first call l: whether an
\* operation failed in it and the kinds of the objects it created, updated or deleted
FirstCall(l) ==
    [failed |-> l.failed # {},
     changed |-> {l.log[i][2] : i \in {j \in DOMAIN l.log : l.log[j][1] \notin {"get", "list"}}}]

\* whether the call that has just returned is call op of owner o with descriptor d,
\* not itself a second call
Returned(op, o, d, runFinalSync) ==
    /\ last.op = op
    /\ last.owner = o
    /\ last.d = d
    /\ last.runFinalSync = runFinalSync
    /\ last.before = <<>>

\* the failure patterns of a call: any for a first call, none for a second one
FirstSwallowedFaults(log, swallowed) == IF Idle THEN SwallowedFaults(log, swallowed) ELSE {{}}

FirstEndingFault(ds, log, swallowed) == IF Idle THEN WithEndingFault(ds, log, swallowed) ELSE {ds}

\* the state after a first or second call that ended with result r
CommitTwice(r, op, o, d, runFinalSync) ==
    /\ secret' = r.c.w.secret
    /\ rs' = r.c.w.rs
    /\ rd' = r.c.w.rd
    /\ se' = r.c.w.se
    /\ pvc' = r.c.w.pvc
    /\ pods' = r.c.w.pods
    /\ snap' = r.c.w.snap
    /\ handler' = [handler EXCEPT ![o] = r.c.h]
    /\ UNCHANGED <<drpolicies, drpcs>>
    /\ last' = [Outcome(r, op, o, d, runFinalSync)
                  EXCEPT !.before = IF Idle THEN <<>> ELSE <<FirstCall(last)>>]

\* the caller calls ReconcileRD, or calls it once more right after it has returned,
\* with the same handler and the same descriptor, before anything else moves
CallReconcileRDOrAgain ==
    \E o \in Callers, d \in Descriptors :
       /\ Idle \/ Returned("ReconcileRD", o, d, FALSE)
       /\ LET Run(f) == ReconcileRD(NewCtx(World, handler[o], f), o, d)
              swallowed == {<<"delete", "rs", d.name>>}
          IN \E r0 \in {Run({})} :
               \E ds \in FirstSwallowedFaults(r0.c.log, swallowed) :
                  \E r1 \in {Run(ds)} :
                     \E f \in FirstEndingFault(ds, r1.c.log, swallowed) :
                        \E r \in {Run(f)} : CommitTwice(r, "ReconcileRD", o, d, FALSE)

CallReconcileRSOrAgain ==
    \E o \in Callers, d \in Descriptors, runFinalSync \in BOOLEAN :
       /\ Idle \/ Returned("ReconcileRS", o, d, runFinalSync)
       /\ LET Run(f) == ReconcileRS(NewCtx(World, handler[o], f), o, d, runFinalSync)
              swallowed == {<<"delete", "rd", d.name>>}
          IN \E r0 \in {Run({})} :
               \E ds \in FirstSwallowedFaults(r0.c.log, swallowed) :
                  \E r1 \in {Run(ds)} :
                     \E f \in FirstEndingFault(ds, r1.c.log, swallowed) :
                        \E r \in {Run(f)} :
                           CommitTwice(r, "ReconcileRS", o, d, runFinalSync)

NextTwice ==
    \/ CallReconcileRDOrAgain
    \/ CallReconcileRSOrAgain
    \/ SecretPropagated
    \/ SecretRemoved
    \/ ClaimCreated
    \/ PodStarts
    \/ PodStops
    \/ TransportSeesRS
    \/ TransportSyncsRS
    \/ TransportWritesRD
    \/ GarbageCollect
    \/ ConstructHandler
    \/ TakeResult

SpecTwice == Init /\ [][NextTwice]_vars

\* C20: a ReconcileRD or ReconcileRS call made right after a call with the same
\* arguments, no operation failing in either, changes no object: the
\* RD, the RS, the ServiceExport, the transport secret and the claim are after it as
\* they were before it, and it issues no create and no update
C20_SecondCallChangesNothing ==
    [][ (/\ IsReconcile(last')
         /\ last'.before # <<>>
         /\ last.failed = {})
        => /\ rd' = rd
           /\ rs' = rs
           /\ se' = se
           /\ secret' = secret
           /\ pvc' = pvc
           /\ \A i \in DOMAIN last'.log : last'.log[i][1] \notin {"create", "update"}
      ]_vars

\* a ReconcileRD that deleted the RS and created the RD and the ServiceExport has been
\* made a second time
C20_Witness ==
    /\ last.op = "ReconcileRD" /\ last.before # <<>> /\ last.err = ""
    /\ ~last.before[1].failed
    /\ {"rs", "rd", "serviceexport"} \subseteq last.before[1].changed
    /\ rd[last.d.name].exists

\* ------------------------------------------------------------------------
\* Objects whose labels somebody else has edited
\* ------------------------------------------------------------------------
\* the labels an external edit leaves on an RS or an RD
EditedLabels ==
    { EmptyMap,
      [k \in {VRGOwnerLabel} |-> "vrgB"],
      [k \in {VRGOwnerLabel, "app"} |-> IF k = "app" THEN "db" ELSE "vrgA"] }

\* somebody edits the labels of the RS or of the RD of a volume
LabelsEdited ==
    /\ Idle
    /\ \E n \in Protected, labels \in EditedLabels :
         \/ /\ rd[n].exists
            /\ rd[n].labels # labels
            /\ rd' = [rd EXCEPT ![n].labels = labels]
            /\ UNCHANGED <<drpolicies, drpcs, secret, rs, se, pvc, pods, snap, handler, last>>
         \/ /\ rs[n].exists
            /\ rs[n].labels # labels
            /\ rs' = [rs EXCEPT ![n].labels = labels]
            /\ UNCHANGED <<drpolicies, drpcs, secret, rd, se, pvc, pods, snap, handler, last>>

NextStamp ==
    \/ CallReconcileRD
    \/ CallReconcileRS
    \/ SecretPropagated
    \/ ClaimCreated
    \/ LabelsEdited
    \/ TakeResult

SpecStamp == Init /\ [][NextStamp]_vars

\* C21: after a ReconcileRD call whose create-or-update of the RD succeeded the RD
\* carries the label volumereplicationgroups-owner with the owner's name and the owner
\* as its controller, whatever labels the RD had before the call; the same holds of
\* the RS after a ReconcileRS call whose create-or-update of the RS succeeded
C21_SelfHealingStamp ==
    [][ LET n == last'.d.name
            o == last'.owner
            stamped(obj) == /\ obj.exists
                            /\ MapHas(obj.labels, "volumereplicationgroups-owner")
                            /\ obj.labels["volumereplicationgroups-owner"] = o
                            /\ obj.ctrl = o
            rsOps == {<<v, "rs", n>> : v \in {"get", "create", "update"}}
        IN /\ (/\ last'.op = "ReconcileRD"
               /\ \E i \in DOMAIN last'.log : last'.log[i] = <<"get", "serviceexport", n>>)
                => stamped(rd'[n])
           /\ (/\ last'.op = "ReconcileRS"
               /\ \E i \in DOMAIN last'.log : last'.log[i] = <<"get", "rs", n>>
               /\ rsOps \cap last'.failed = {}
               /\ last'.err = "" \/ <<"delete", "pvc", n>> \in last'.failed)
                => stamped(rs'[n])
      ]_vars

\* a ReconcileRD call has put the owner's label back on an RD that carried the label
\* of another owner
C21_Witness ==
    /\ last.op = "ReconcileRD" /\ last.err = ""
    /\ \E i \in DOMAIN last.log : last.log[i] = <<"update", "rd", last.d.name>>
    /\ rd[last.d.name].labels = [k \in {VRGOwnerLabel} |-> last.owner]

\* C22, as the spec states it: no ReconcileRD or ReconcileRS call issues a write to the
\* transport secret, and the secret is after the call as it was before
C22_SecretReadOnly ==
    [][ IsReconcile(last')
        => /\ secret' = secret
           /\ \A i \in DOMAIN last'.log :
                 last'.log[i][2] = "secret" => last'.log[i][1] = "get"
      ]_vars

\* C22, amended: a ReconcileRD or ReconcileRS call neither creates nor deletes a secret;
\* the only write it issues to the owner's secret is one update, issued only when the
\* owner is not yet among the owner references of the secret, and that update adds the
\* owner to them and changes nothing else; the secrets of other owners are untouched
C22_SecretOwnerRefOnly ==
    [][ IsReconcile(last')
        => LET o == last'.owner
               ops == SelectSeq(last'.log, LAMBDA op : op[2] = "secret")
               updates == SelectSeq(ops, LAMBDA op : op[1] = "update")
           IN /\ \A i \in DOMAIN ops : ops[i][1] \in {"get", "update"}
              /\ Len(updates) <= 1
              /\ (~secret[o].exists \/ o \in secret[o].ownerRefs)
                   => (updates = <<>> /\ secret' = secret)
              /\ \A s \in DOMAIN secret :
                   /\ secret'[s].exists = secret[s].exists
                   /\ s # o => secret'[s] = secret[s]
              /\ \/ secret'[o] = secret[o]
                 \/ /\ Len(updates) = 1
                    /\ secret'[o] = [secret[o] EXCEPT !.ownerRefs = @ \cup {o}]
      ]_vars

\* a call has updated the secret and the secret now names the owner among its owners
C22_Witness ==
    /\ IsReconcile(last)
    /\ \E i \in DOMAIN last.log : last.log[i][1] = "update" /\ last.log[i][2] = "secret"
    /\ last.owner \in secret[last.owner].ownerRefs

\* ------------------------------------------------------------------------
\* A call that is aborted and made again
\* ------------------------------------------------------------------------
\* what a call that ended with result r leaves: the objects and what it returned
Reached(r) ==
    [w |-> r.c.w, err |-> r.c.err, nonNil |-> r.nonNil, final |-> r.final, obj |-> r.obj]

\* the places at which a call with log can be aborted, each as the operation that is
\* the first not to be issued; the empty set is the call that runs to its end.  An
\* abort between a delete the call would go on from and the operation after it is
\* the abort before that operation.
AbortPoints(log, swallowed) == {{}} \cup {{x} : x \in {y \in IssuedOps(log) : y[1] \notin swallowed}}

\* the state after a call was aborted and then made again, the second time with result
\* r; expected is what the other course of events reaches
CommitResumed(r, op, o, d, runFinalSync, expected) ==
    /\ secret' = r.c.w.secret
    /\ rs' = r.c.w.rs
    /\ rd' = r.c.w.rd
    /\ se' = r.c.w.se
    /\ pvc' = r.c.w.pvc
    /\ pods' = r.c.w.pods
    /\ snap' = r.c.w.snap
    /\ handler' = [handler EXCEPT ![o] = r.c.h]
    /\ UNCHANGED <<drpolicies, drpcs>>
    /\ last' = [Outcome(r, op, o, d, runFinalSync) EXCEPT !.before = expected]

\* ReconcileRD is aborted before one of its operations and then called again with the
\* same descriptor, by the same handler or by a new one; the other course of events
\* is the call that runs to its end followed by a repeat call
ResumeReconcileRD ==
    /\ Idle
    /\ \E o \in Callers, d \in Descriptors :
         LET Run(w, h, f) == ReconcileRD(NewCtx(w, h, f), o, d)
         IN \E whole \in {Run(World, handler[o], {})} :
              \E f \in AbortPoints(whole.c.log, {<<"delete", "rs", d.name>>}) :
                 \E aborted \in {Run(World, handler[o], f)} :
                    \E h \in {aborted.c.h, NewVSHandler(handler[o].schedulingInterval)} :
                       \E next \in {[from \in {"aborted", "whole"} |->
                                       Run(IF from = "aborted" THEN aborted.c.w ELSE whole.c.w,
                                           IF from = "aborted" THEN h ELSE whole.c.h, {})]} :
                          CommitResumed(next["aborted"], "ReconcileRD", o, d, FALSE,
                                        <<Reached(next["whole"])>>)

ResumeReconcileRS ==
    /\ Idle
    /\ \E o \in Callers, d \in Descriptors, runFinalSync \in BOOLEAN :
         LET Run(w, h, f) == ReconcileRS(NewCtx(w, h, f), o, d, runFinalSync)
         IN \E whole \in {Run(World, handler[o], {})} :
              \E f \in AbortPoints(whole.c.log, {<<"delete", "rd", d.name>>}) :
                 \E aborted \in {Run(World, handler[o], f)} :
                    \E h \in {aborted.c.h, NewVSHandler(handler[o].schedulingInterval)} :
                       \E next \in {[from \in {"aborted", "whole"} |->
                                       Run(IF from = "aborted" THEN aborted.c.w ELSE whole.c.w,
                                           IF from = "aborted" THEN h ELSE whole.c.h, {})]} :
                          CommitResumed(next["aborted"], "ReconcileRS", o, d, runFinalSync,
                                        <<Reached(next["whole"])>>)

\* the same for EnsurePVCfromRD; the second element is what one more call after the
\* call made again reaches
ResumeEnsurePVCfromRD ==
    /\ Idle
    /\ \E o \in Callers, d \in EnsureDescriptors :
         LET Run(w, h, f) == EnsurePVCfromRD(NewCtx(w, h, f), d)
         IN \E whole \in {Run(World, handler[o], {})} :
              \E f \in AbortPoints(whole.c.log, {<<"delete", "pvc", d.name>>}) :
                 \E aborted \in {Run(World, handler[o], f)} :
                    \E next \in {[from \in {"aborted", "whole"} |->
                                    Run(IF from = "aborted" THEN aborted.c.w ELSE whole.c.w,
                                        IF from = "aborted" THEN aborted.c.h ELSE whole.c.h,
                                        {})]} :
                       \E more \in {Run(next["aborted"].c.w, next["aborted"].c.h, {})} :
                          CommitResumed(next["aborted"], "EnsurePVCfromRD", o, d, FALSE,
                                        <<Reached(next["whole"]), Reached(more)>>)

NextResume ==
    \/ ResumeReconcileRD
    \/ ResumeReconcileRS
    \/ ResumeEnsurePVCfromRD
    \/ SecretPropagated
    \/ ClaimCreated
    \/ TransportSeesRS
    \/ TransportSyncsRS
    \/ TransportReportsImage
    \/ SnapshotTaken
    \/ TakeResult

SpecResume == Init /\ [][NextResume]_vars

\* the objects and the return value of the call that has just returned
ReachedNow ==
    [w |-> World, err |-> last.err, nonNil |-> last.nonNil, final |-> last.final,
     obj |-> last.obj]

\* C23, as the spec states it: a ReconcileRD, ReconcileRS or EnsurePVCfromRD call that
\* was aborted before any of its operations and is then made again with the same
\* inputs reaches the objects and the return value that the call run to its end,
\* followed by a repeat call, reaches
C23_ResumeInOneCall ==
    last.before # <<>> => ReachedNow = last.before[1]

\* C23, amended: the above holds of ReconcileRD and ReconcileRS, and of EnsurePVCfromRD
\* unless the call made again returns the recreation-required error; after that error
\* one more EnsurePVCfromRD call reaches the objects and the return value of the other
\* course of events
C23_ResumeConverges ==
    last.before # <<>>
    => /\ IsReconcile(last) => ReachedNow = last.before[1]
       /\ last.op = "EnsurePVCfromRD"
            => IF last.err = RecreationError
               THEN last.before[2] = last.before[1]
               ELSE ReachedNow = last.before[1]

\* a ReconcileRD call that followed an aborted one has created the RD and the
\* ServiceExport and has reached what the other course of events reaches
C23_Witness ==
    /\ last.op = "ReconcileRD" /\ last.before # <<>> /\ last.err = ""
    /\ ~(\E i \in DOMAIN last.log : last.log[i][1] = "delete")
    /\ \E i, j \in DOMAIN last.log :
         /\ last.log[i] = <<"create", "rd", last.d.name>>
         /\ last.log[j] = <<"create", "serviceexport", last.d.name>>
    /\ ReachedNow = last.before[1]

\* ------------------------------------------------------------------------
\* Two owners in one namespace
\* ------------------------------------------------------------------------
\* the hub propagates the secret of either owner
SecretPropagatedTo ==
    /\ Idle
    /\ \E o \in Owners :
      /\ ~secret[o].exists
      /\ secret' = [secret EXCEPT ![o] = [exists |-> TRUE, ownerRefs |-> {}]]
      /\ UNCHANGED <<drpolicies, drpcs, rs, rd, se, pvc, pods, snap, handler, last>>

\* ReconcileRD and ReconcileRS called by either owner for either volume; at most one
\* operation of a call fails
OwnerReconcileRD ==
    /\ Idle
    /\ \E o \in Owners, n \in Volumes :
         LET d == Descriptor(n, TRUE, "sc1", <<>>)
             Run(f) == ReconcileRD(NewCtx(World, handler[o], f), o, d)
         IN \E r0 \in {Run({})} :
              \E f \in WithEndingFault({}, r0.c.log, {}) :
                 \E r \in {Run(f)} : Commit(r, "ReconcileRD", o, d, FALSE)

OwnerReconcileRS ==
    /\ Idle
    /\ \E o \in Owners, n \in Volumes :
         LET d == Descriptor(n, TRUE, "sc1", <<>>)
             Run(f) == ReconcileRS(NewCtx(World, handler[o], f), o, d, FALSE)
         IN \E r0 \in {Run({})} :
              \E f \in WithEndingFault({}, r0.c.log, {}) :
                 \E r \in {Run(f)} : Commit(r, "ReconcileRS", o, d, FALSE)

\* DeleteRS or DeleteRD of owner a that has listed its objects, is overtaken by a whole
\* ReconcileRS or ReconcileRD call of owner b, and then deletes, by name, what it had
\* listed: client.Delete takes the name of the listed object and no precondition
DeleteOvertaken ==
    /\ Idle
    /\ \E a \in Owners, b \in Owners, n \in Volumes, m \in Volumes, kind \in {"rs", "rd"} :
         /\ a # b
         /\ LET listed == SelectSeq(listByOwner(IF kind = "rs" THEN rs ELSE rd, a),
                                    LAMBDA x : x = n)
                d == Descriptor(m, TRUE, "sc1", <<>>)
            IN \E other \in {ReconcileRS(NewCtx(World, handler[b], {}), b, d, FALSE),
                             ReconcileRD(NewCtx(World, handler[b], {}), b, d)} :
                 \E c \in {Issue(NewCtx(other.c.w, handler[a], {}), <<"list", kind, a>>)} :
                    \E r \in {IF kind = "rs" THEN DeleteEachRS(c, listed)
                                             ELSE DeleteEachRD(c, listed)} :
                       /\ secret' = r.w.secret
                       /\ rs' = r.w.rs
                       /\ rd' = r.w.rd
                       /\ se' = r.w.se
                       /\ pvc' = r.w.pvc
                       /\ pods' = r.w.pods
                       /\ snap' = r.w.snap
                       /\ handler' = [handler EXCEPT ![b] = other.c.h]
                       /\ UNCHANGED <<drpolicies, drpcs>>
                       /\ last' = [Outcome(Result(r, FALSE, NoRD, FALSE),
                                           IF kind = "rs" THEN "DeleteRS" ELSE "DeleteRD",
                                           a, Descriptor(n, TRUE, "sc1", <<>>), FALSE)
                                      EXCEPT !.before = <<[owner |-> b, w |-> other.c.w]>>]

NextOwners ==
    \/ OwnerReconcileRD
    \/ OwnerReconcileRS
    \/ CallDeleteRS
    \/ CallDeleteRD
    \/ CallCleanupRDNotInSpecList
    \/ DeleteOvertaken
    \/ SecretPropagatedTo
    \/ TakeResult

SpecOwners == Init /\ [][NextOwners]_vars

\* the objects of objs (rs or rd) that carry the label of an owner other than o are in
\* objsAfter as they are in objs
OthersKept(objs, objsAfter, o) ==
    \A n \in Volumes :
       (/\ objs[n].exists
        /\ MapHas(objs[n].labels, "volumereplicationgroups-owner")
        /\ objs[n].labels["volumereplicationgroups-owner"] # o)
       => objsAfter[n] = objs[n]

\* C24: whatever calls the two owners have made before, in whatever order, a
\* ReconcileRD, ReconcileRS, DeleteRS, DeleteRD or CleanupRDNotInSpecList call made
\* for one owner leaves every RS and every RD that carries the other owner's label as
\* it was; this holds also of a DeleteRS or DeleteRD that is overtaken, between its
\* list and its deletes, by a reconcile of the other owner, and of that reconcile
C24_CrossOwnerIsolation ==
    [][ (last' # NoCall /\ last = NoCall)
        => IF last'.before = <<>>
           THEN /\ OthersKept(rs, rs', last'.owner)
                /\ OthersKept(rd, rd', last'.owner)
           ELSE /\ OthersKept(rs, last'.before[1].w.rs, last'.before[1].owner)
                /\ OthersKept(rd, last'.before[1].w.rd, last'.before[1].owner)
                /\ OthersKept(last'.before[1].w.rs, rs', last'.owner)
                /\ OthersKept(last'.before[1].w.rd, rd', last'.owner) ]_vars

\* owner vrgB has called ReconcileRD for a volume whose RD carries the label of
\* vrgA, and has been refused, while an RS of its own exists for the other volume
C24_Witness ==
    /\ last.op = "ReconcileRD" /\ last.owner = "vrgB" /\ last.err # ""
    /\ last.failed = {}
    /\ rd[last.d.name].exists
    /\ rd[last.d.name].labels["volumereplicationgroups-owner"] = "vrgA"
    /\ \E n \in Volumes : /\ rs[n].exists
                          /\ rs[n].labels["volumereplicationgroups-owner"] = "vrgB"

\* ------------------------------------------------------------------------
\* RS and RD of a volume made side by side
\* ------------------------------------------------------------------------
\* SourceMade and DestinationMade are the create-or-update of a reconcile that had
\* listed before the object of the other role was made
NextRace ==
    \/ CallReconcileRD
    \/ CallReconcileRS
    \/ SecretPropagated
    \/ SourceMade
    \/ DestinationMade
    \/ TakeResult

SpecRace == Init /\ [][NextRace]_vars

\* C25: when the RS and the RD of a volume exist side by side under the owner's label,
\* a ReconcileRD or ReconcileRS call of that owner for that volume, made with the
\* secret in place and replication enabled, that returns without error leaves at most
\* one of the two
C25_Reconverges ==
    [][ (/\ last = NoCall
         /\ IsReconcile(last')
         /\ last'.err = ""
         /\ last'.d.enabled
         /\ secret[last'.owner].exists
         /\ Labelled(rs[last'.d.name], last'.owner)
         /\ Labelled(rd[last'.d.name], last'.owner))
        => ~(rs'[last'.d.name].exists /\ rd'[last'.d.name].exists) ]_vars

\* the same of the calls in which no operation failed
C25_ReconvergesUnlessDeleteFails ==
    [][ (/\ last = NoCall
         /\ IsReconcile(last')
         /\ last'.err = ""
         /\ last'.failed = {}
         /\ last'.d.enabled
         /\ secret[last'.owner].exists
         /\ Labelled(rs[last'.d.name], last'.owner)
         /\ Labelled(rd[last'.d.name], last'.owner))
        => ~(rs'[last'.d.name].exists /\ rd'[last'.d.name].exists) ]_vars

\* ------------------------------------------------------------------------
\* The four entry points that report failures
\* ------------------------------------------------------------------------
\* the transport takes the first snapshot of the volume and reports it as the latest
\* image of the RD
TransportTakesSnapshot ==
    /\ Idle
    /\ \E n \in Protected :
      /\ rd[n].exists /\ ~snap["snap1"].exists
      /\ snap' = [snap EXCEPT !["snap1"] = [NoSnapshot EXCEPT !.exists = TRUE]]
      /\ rd' = [rd EXCEPT ![n].status =
                   [present |-> TRUE, address |-> TRUE,
                    latestImage |-> [nil |-> FALSE, apiGroup |-> "",
                                     kind |-> VolumeSnapshotKind, name |-> "snap1"]]]
      /\ UNCHANGED <<drpolicies, drpcs, secret, rs, se, pvc, pods, handler, last>>

NextFailures ==
    \/ CallReconcileRD
    \/ CallReconcileRS
    \/ CallPreparePVCForFinalSync
    \/ CallEnsurePVCfromRD
    \/ SecretPropagated
    \/ ClaimCreated
    \/ TransportSeesRS
    \/ TransportSyncsRS
    \/ TransportTakesSnapshot
    \/ TakeResult

SpecFailures == Init /\ [][NextFailures]_vars

\* what a call returns as its error when no operation it issued has failed
NotAFailure ==
    {"",
     "no storageClassName given, cannot proceed",
     "object is already owned by another controller",
     "protectedPVC is not VolSync Enabled",
     "unable to find LatestImage from ReplicationDestination",
     "unable to find matching volumesnapshotclass",
     "pvc has incorrect datasource, will need to delete and recreate"}

\* the failed operations of the call l other than the deletes of the RS and RD objects
\* inside DeleteRS and DeleteRD
FailedOutsideCleanup(l) ==
    {x \in l.failed : ~(x[1] = "delete" /\ x[2] \in {"rs", "rd"})}

\* C26, as the spec states it: a ReconcileRD, ReconcileRS, PreparePVCForFinalSync or
\* EnsurePVCfromRD call in which a get, list, create, update or delete other than the
\* deletes of RS and RD objects has failed returns that failure as its error
C26_NeverSwallowed ==
    (last # NoCall /\ FailedOutsideCleanup(last) # {}) => last.err \notin NotAFailure

\* C26, amended: the above holds of every failed operation but the delete of a claim
\* with another data source in EnsurePVCfromRD; when that delete fails the call
\* returns the recreation-required error, as it does when the delete succeeds
C26_FailuresReturned ==
    last # NoCall
    => LET recreate == {x \in last.failed : /\ last.op = "EnsurePVCfromRD"
                                            /\ x = <<"delete", "pvc", last.d.name>>}
       IN /\ (FailedOutsideCleanup(last) \ recreate) # {} => last.err \notin NotAFailure
          /\ recreate # {}
               => last.err = "pvc has incorrect datasource, will need to delete and recreate"

\* a ReconcileRS call has found the final sync complete, its delete of the claim has
\* failed, and it has returned that failure
C26_Witness ==
    /\ last.op = "ReconcileRS" /\ last.runFinalSync
    /\ last.failed = {<<"delete", "pvc", last.d.name>>}
    /\ last.err = "error deleting pvc"

\* the call l has created or updated the RS of its volume
WroteRS(l) ==
    \E i \in DOMAIN l.log :
       /\ l.log[i] \in {<<"create", "rs", l.d.name>>, <<"update", "rs", l.d.name>>}
       /\ l.log[i] \notin l.failed

\* C27: after a ReconcileRS call that has created or updated the RS, the trigger of the
\* RS has the manual token "vrg-final-sync" and no schedule when runFinalSync is true,
\* and a cron schedule and no manual token when it is false
C27_TriggerExclusive ==
    (last.op = "ReconcileRS" /\ WroteRS(last))
    => LET trigger == rs[last.d.name].spec.trigger
       IN IF last.runFinalSync
          THEN trigger.manual = "vrg-final-sync" /\ trigger.schedule = <<>>
          ELSE trigger.manual = "" /\ trigger.schedule # <<>>

\* a ReconcileRS call for the final sync has updated an RS that had a schedule
C27_Witness ==
    /\ last.op = "ReconcileRS" /\ last.runFinalSync
    /\ \E i \in DOMAIN last.log : last.log[i] = <<"update", "rs", last.d.name>>
    /\ <<"update", "rs", last.d.name>> \notin last.failed
    /\ rs[last.d.name].spec.trigger.manual = "vrg-final-sync"

IsRDDataProtected_AnyKind(c, pvcName) ==
    LET i == getRDLatestImage(c, pvcName)
    IN IF i.c.err # "" THEN [c |-> i.c, protected |-> FALSE]
       ELSE [c |-> i.c, protected |-> ~i.latestImage.nil /\ i.latestImage.name # ""]

\* [c, protected]
IsRDDataProtected(c, pvcName) ==
    LET i == getRDLatestImage(c, pvcName)
    IN IF i.c.err # "" THEN [c |-> i.c, protected |-> FALSE]
       ELSE [c |-> i.c, protected |-> isLatestImageReady(i.latestImage)]

\* [c, protected]
IsRSDataProtected(c, pvcName) ==
    LET name == getReplicationSourceName(pvcName)
        get == <<"get", "rs", name>>
        c1 == Issue(c, get)
        found == c.w.rs[name]
    IN IF Fails(c, get) THEN [c |-> Err(c1, "get failed"), protected |-> FALSE]
       ELSE IF ~found.exists THEN [c |-> c1, protected |-> FALSE]
       ELSE [c |-> c1, protected |-> isRSLastSyncTimeReady(found.status)]

\* the state after a call of a protection predicate that ended with r; the boolean it
\* returned is recorded as final
CommitProtected(r, op, o, n) ==
    /\ secret' = r.c.w.secret
    /\ rs' = r.c.w.rs
    /\ rd' = r.c.w.rd
    /\ se' = r.c.w.se
    /\ pvc' = r.c.w.pvc
    /\ pods' = r.c.w.pods
    /\ snap' = r.c.w.snap
    /\ handler' = [handler EXCEPT ![o] = r.c.h]
    /\ UNCHANGED <<drpolicies, drpcs>>
    /\ last' = Outcome(Result(r.c, r.protected, NoRD, FALSE), op, o,
                       Descriptor(n, TRUE, "sc1", <<>>), FALSE)

CallIsRDDataProtected ==
    /\ Idle
    /\ \E o \in Callers, n \in Volumes :
         \E r0 \in {IsRDDataProtected(NewCtx(World, handler[o], {}), n)} :
            \E f \in WithEndingFault({}, r0.c.log, {}) :
               \E r \in {IsRDDataProtected(NewCtx(World, handler[o], f), n)} :
                  CommitProtected(r, "IsRDDataProtected", o, n)

CallIsRSDataProtected ==
    /\ Idle
    /\ \E o \in Callers, n \in Volumes :
         \E r0 \in {IsRSDataProtected(NewCtx(World, handler[o], {}), n)} :
            \E f \in WithEndingFault({}, r0.c.log, {}) :
               \E r \in {IsRSDataProtected(NewCtx(World, handler[o], f), n)} :
                  CommitProtected(r, "IsRSDataProtected", o, n)

\* the transport resets the last sync time of an RS
TransportResetsRS ==
    /\ Idle
    /\ \E n \in Protected, t \in {"nil", "zero"} :
      /\ rs[n].exists /\ rs[n].status.present
      /\ rs' = [rs EXCEPT ![n].status.lastSyncTime = t]
      /\ rs' # rs
      /\ UNCHANGED <<drpolicies, drpcs, secret, rd, se, pvc, pods, snap, handler, last>>

NextProtected ==
    \/ CallIsRDDataProtected
    \/ CallIsRSDataProtected
    \/ SourceMade
    \/ DestinationMade
    \/ TransportSeesRS
    \/ TransportSyncsRS
    \/ TransportResetsRS
    \/ TransportWritesRD
    \/ TakeResult

SpecProtected == Init /\ [][NextProtected]_vars

\* C29: an IsRDDataProtected call that gets the RD returns true exactly when the RD
\* of the volume exists and its status has a latest image with a name and the kind
\* VolumeSnapshot, whatever the image was before; an IsRSDataProtected call that gets
\* the RS returns true exactly when the RS exists with a last sync time that is set
\* and not zero; both return (false, nil) when the object is absent, and both issue
\* nothing but the get and leave every object as it was
C29_ProtectionPredicates ==
    [][ (last = NoCall /\ last'.op \in {"IsRDDataProtected", "IsRSDataProtected"})
        => /\ <<secret, rs, rd, se, pvc, pods, snap>>' = <<secret, rs, rd, se, pvc, pods, snap>>
           /\ \A i \in DOMAIN last'.log : last'.log[i][1] = "get"
           /\ (last'.op = "IsRDDataProtected" /\ last'.failed = {})
                => /\ last'.err = ""
                   /\ last'.final =
                        (/\ rd[last'.d.name].exists
                         /\ rd[last'.d.name].status.present
                         /\ ~rd[last'.d.name].status.latestImage.nil
                         /\ rd[last'.d.name].status.latestImage.name # ""
                         /\ rd[last'.d.name].status.latestImage.kind = "VolumeSnapshot")
           /\ (last'.op = "IsRSDataProtected" /\ last'.failed = {})
                => /\ last'.err = ""
                   /\ last'.final =
                        (/\ rs[last'.d.name].exists
                         /\ rs[last'.d.name].status.present
                         /\ rs[last'.d.name].status.lastSyncTime \notin {"nil", "zero"})
           /\ last'.failed # {} => ~last'.final /\ last'.err # "" ]_vars

\* IsRDDataProtected has returned false for an RD whose latest image has a name and
\* is not a VolumeSnapshot
C29_Witness ==
    /\ last.op = "IsRDDataProtected" /\ last.err = "" /\ ~last.final
    /\ rd[last.d.name].exists
    /\ rd[last.d.name].status.latestImage.name = "snap1"
    /\ rd[last.d.name].status.latestImage.kind = "PersistentVolumeClaim"

\* ------------------------------------------------------------------------
\* The conversion of the scheduling interval
\* ------------------------------------------------------------------------
\* the longest number of an interval, in characters
MaxNumLen == 3

\* the characters a number is written with here, and the units
NumChars == {"0", "2", "3", "9", "+", "-", "x"}
UnitChars == {"m", "h", "d", "M", "H", "D", "s", "2"}

\* the scheduling intervals a handler is constructed with: a number, or what stands
\* in its place, followed by a unit, or what stands in its place; and none
Intervals ==
    {<<>>} \cup
    UNION {{num \o <<u>> : num \in [1..k -> NumChars], u \in UnitChars} : k \in 0..MaxNumLen}

\* the handlers are constructed with any of the intervals
InitCron ==
    /\ secret = [o \in Owners |-> NoSecret]
    /\ rs = [n \in Volumes |-> NoRS]
    /\ rd = [n \in Volumes |-> NoRD]
    /\ se = [n \in Volumes |-> NoSE]
    /\ pvc = [n \in Volumes |-> NoPVC]
    /\ pods = [n \in Volumes |-> 0]
    /\ snap = [s \in Snapshots |-> NoSnapshot]
    /\ \E i \in Intervals : handler = [o \in Owners |-> NewVSHandler(i)]
    /\ last = NoCall
    /\ drpolicies = [p \in PolicyNames |-> NoDRPolicy]
    /\ drpcs = [x \in DRPCNames |-> NoDRPC]

\* ConvertSchedulingIntervalToCronSpec applied to the interval of the handler; the
\* cron spec it returns is recorded as list
CallConvertSchedulingIntervalToCronSpec ==
    /\ Idle
    /\ \E o \in Callers :
         \E r \in {ConvertSchedulingIntervalToCronSpec(handler[o].schedulingInterval)} :
            last' = [NoCall EXCEPT !.op = "ConvertSchedulingIntervalToCronSpec",
                                   !.owner = o, !.err = r.err, !.list = r.spec]
    /\ UNCHANGED <<drpolicies, drpcs, secret, rs, rd, se, pvc, pods, snap, handler>>

NextCron ==
    \/ CallConvertSchedulingIntervalToCronSpec
    \/ TakeResult

SpecCron == InitCron /\ [][NextCron]_vars

\* C30: when ConvertSchedulingIntervalToCronSpec accepts an interval, the number N
\* followed by a unit, it returns "*/N * * * *" for the unit m or M, "0 */N * * *" for
\* h or H and "0 0 */N * *" for d or D, with N as it is written, except that for d a
\* number above 28 is written 28; the day field is never a number above 28
C30_CronSpec ==
    (last.op = "ConvertSchedulingIntervalToCronSpec" /\ last.err = "")
    => LET interval == handler[last.owner].schedulingInterval
           N == SubSeq(interval, 1, Len(interval) - 1)
           unit == interval[Len(interval)]
       IN /\ unit \in {"m", "M", "h", "H", "d", "D"}
          /\ unit \in {"m", "M"} => last.list = <<"*/">> \o N \o <<" * * * *">>
          /\ unit \in {"h", "H"} => last.list = <<"0 */">> \o N \o <<" * * *">>
          /\ unit \in {"d", "D"}
               => /\ last.list = <<"0 0 */">>
                                 \o (IF Atoi(N).val > 28 THEN <<"2", "8">> ELSE N)
                                 \o <<" * *">>
                  /\ Atoi(SubSeq(last.list, 2, Len(last.list) - 1)).val <= 28

\* an interval of more than 28 days with the unit in upper case has been converted
C30_Witness ==
    /\ last.op = "ConvertSchedulingIntervalToCronSpec" /\ last.err = ""
    /\ handler[last.owner].schedulingInterval = <<"9", "9", "D">>
    /\ last.list = <<"0 0 */", "2", "8", " * *">>

\* C31: ConvertSchedulingIntervalToCronSpec returns a schedule exactly when the
\* interval is a number above zero followed by one of m, h, d in either case; for
\* every other interval it returns an error and no schedule
C31_AcceptsPositiveOnly ==
    last.op = "ConvertSchedulingIntervalToCronSpec"
    => LET interval == handler[last.owner].schedulingInterval
           wellFormed ==
             /\ Len(interval) >= 2
             /\ interval[Len(interval)] \in {"m", "M", "h", "H", "d", "D"}
             /\ Atoi(SubSeq(interval, 1, Len(interval) - 1)).ok
             /\ Atoi(SubSeq(interval, 1, Len(interval) - 1)).val > 0
       IN /\ (last.err = "") = wellFormed
          /\ last.err # "" => last.list = <<>>
          /\ last.err = "" => last.list # <<>>

\* the same with zero and the numbers below it taken as numbers
C31_AcceptsEveryNumber ==
    last.op = "ConvertSchedulingIntervalToCronSpec"
    => LET interval == handler[last.owner].schedulingInterval
           wellFormed ==
             /\ Len(interval) >= 2
             /\ interval[Len(interval)] \in {"m", "M", "h", "H", "d", "D"}
             /\ Atoi(SubSeq(interval, 1, Len(interval) - 1)).ok
       IN /\ (last.err = "") = wellFormed
          /\ last.err # "" => last.list = <<>>
          /\ last.err = "" => last.list # <<>>

\* ------------------------------------------------------------------------
\* The choice of the snapshot class
\* ------------------------------------------------------------------------
\* the most classes in the cluster
MaxClasses == 3

\* the snapshot classes a cluster can have, each under its own name
ClassUniverse ==
    { [name |-> "vsc-a", driver |-> "csi1", annotations |-> EmptyMap],
      [name |-> "vsc-b", driver |-> "csi1",
       annotations |-> [k \in {"snapshot.storage.kubernetes.io/is-default-class"} |-> "true"]],
      [name |-> "vsc-c", driver |-> "csi2", annotations |-> EmptyMap],
      [name |-> "vsc-d", driver |-> "csi1",
       annotations |-> [k \in {"snapshot.storage.kubernetes.io/is-default-class"} |-> "false"]],
      [name |-> "vsc-e", driver |-> "csi2",
       annotations |-> [k \in {"snapshot.storage.kubernetes.io/is-default-class"} |-> "true"]] }

\* the class lists of a cluster: up to MaxClasses different classes in any order
ClassLists ==
    UNION {{l \in [1..k -> ClassUniverse] : \A i, j \in 1..k : l[i] = l[j] => i = j}
           : k \in 0..MaxClasses}

\* the handler is constructed in a cluster with any of the class lists
InitClasses ==
    /\ secret = [o \in Owners |-> NoSecret]
    /\ rs = [n \in Volumes |-> NoRS]
    /\ rd = [n \in Volumes |-> NoRD]
    /\ se = [n \in Volumes |-> NoSE]
    /\ pvc = [n \in Volumes |-> NoPVC]
    /\ pods = [n \in Volumes |-> 0]
    /\ snap = [s \in Snapshots |-> NoSnapshot]
    /\ \E l \in ClassLists :
         handler = [o \in Owners |->
                      [NewVSHandler(SchedulingInterval) EXCEPT !.classes = l]]
    /\ last = NoCall
    /\ drpolicies = [p \in PolicyNames |-> NoDRPolicy]
    /\ drpcs = [x \in DRPCNames |-> NoDRPC]

\* GetVolumeSnapshotClassFromPVCStorageClass called with no storage class name, with
\* the name of a storage class, or with a name no storage class has; the class name it
\* returns is recorded as list
CallGetVolumeSnapshotClassFromPVCStorageClass ==
    /\ Idle
    /\ \E o \in Callers, sc \in {"", "sc1", "sc9", "sc0"} :
         LET Run(f) == GetVolumeSnapshotClassFromPVCStorageClass(
                          NewCtx(World, handler[o], f), sc)
         IN \E r0 \in {Run({})} :
              \E f \in WithEndingFault({}, r0.c.log, {}) :
                 \E r \in {Run(f)} :
                    /\ handler' = [handler EXCEPT ![o] = r.c.h]
                    /\ last' = [Outcome(Result(r.c, FALSE, NoRD, FALSE),
                                        "GetVolumeSnapshotClassFromPVCStorageClass", o,
                                        Descriptor("", TRUE, sc, <<>>), FALSE)
                                  EXCEPT !.list = <<r.name>>]
    /\ UNCHANGED <<drpolicies, drpcs, secret, rs, rd, se, pvc, pods, snap>>

NextClasses ==
    \/ CallGetVolumeSnapshotClassFromPVCStorageClass
    \/ ConstructHandler
    \/ TakeResult

SpecClasses == InitClasses /\ [][NextClasses]_vars

\* C32: a GetVolumeSnapshotClassFromPVCStorageClass call that returns without error
\* returns the name of a class of the list whose driver is the provisioner of the
\* storage class, and one flagged default if a class with that driver is flagged
\* default, whatever the order of the list; a call made without a storage class name,
\* or for a provisioner no class of the list has as driver, returns an error and no
\* name; otherwise a call in which no operation fails returns a name
C32_SnapshotClassSelection ==
    last.op = "GetVolumeSnapshotClassFromPVCStorageClass"
    => LET classes == handler[last.owner].classes
           sc == last.d.sc
           Matches(i) == /\ sc \in {"sc1", "sc9"}
                         /\ classes[i].driver = (IF sc = "sc1" THEN "csi1" ELSE "csi9")
           IsDefault(i) ==
               /\ "snapshot.storage.kubernetes.io/is-default-class"
                     \in DOMAIN classes[i].annotations
               /\ classes[i].annotations["snapshot.storage.kubernetes.io/is-default-class"]
                     = "true"
       IN /\ last.err = ""
               => \E i \in DOMAIN classes :
                     /\ Matches(i)
                     /\ last.list = <<classes[i].name>>
                     /\ (\E j \in DOMAIN classes : Matches(j) /\ IsDefault(j))
                           => IsDefault(i)
          /\ (sc = "" \/ ~(\E i \in DOMAIN classes : Matches(i)))
               => last.err # "" /\ last.list = <<"">>
          /\ (last.failed = {} /\ \E i \in DOMAIN classes : Matches(i)) => last.err = ""

\* the call has returned the class flagged default that stands in the list before a
\* class with the same driver that is not flagged
C32_Witness ==
    /\ last.op = "GetVolumeSnapshotClassFromPVCStorageClass" /\ last.err = ""
    /\ last.list = <<"vsc-b">>
    /\ handler[last.owner].classes[1].name = "vsc-b"
    /\ \E i \in DOMAIN handler[last.owner].classes :
          handler[last.owner].classes[i].name = "vsc-a"

\* ------------------------------------------------------------------------
\* Handlers with any scheduling interval
\* ------------------------------------------------------------------------
\* the scheduling intervals of the handlers of SpecInterval: none, one that converts,
\* and four that do not
HandlerIntervals ==
    { <<>>, <<"5", "m">>, <<"5", "x">>, <<"x", "m">>, <<"m">>, <<"5">> }

InitInterval ==
    /\ secret = [o \in Owners |-> NoSecret]
    /\ rs = [n \in Volumes |-> NoRS]
    /\ rd = [n \in Volumes |-> NoRD]
    /\ se = [n \in Volumes |-> NoSE]
    /\ pvc = [n \in Volumes |-> NoPVC]
    /\ pods = [n \in Volumes |-> 0]
    /\ snap = [s \in Snapshots |-> NoSnapshot]
    /\ \E i \in HandlerIntervals : handler = [o \in Owners |-> NewVSHandler(i)]
    /\ last = NoCall
    /\ drpolicies = [p \in PolicyNames |-> NoDRPolicy]
    /\ drpcs = [x \in DRPCNames |-> NoDRPC]

NextInterval ==
    \/ CallReconcileRS
    \/ SecretPropagated
    \/ ClaimCreated
    \/ DestinationMade
    \/ TransportSeesRS
    \/ TransportSyncsRS
    \/ TakeResult

SpecInterval == InitInterval /\ [][NextInterval]_vars

C34_FinalSyncStable ==
    [][ (/\ last'.op = "ReconcileRS"
         /\ last'.before # <<>>
         /\ last'.runFinalSync
         /\ last.final /\ last.nonNil /\ last.err = "")
        => /\ ~pvc[last'.d.name].exists
           /\ last'.final /\ last'.nonNil /\ last'.err = ""
           /\ last'.obj = last.obj
           /\ \E i, j \in DOMAIN last'.log :
                 /\ i < j
                 /\ last'.log[i] = <<"get", "pvc", last'.d.name>>
                 /\ last'.log[j] = <<"delete", "pvc", last'.d.name>>
           /\ pvc' = pvc /\ rs' = rs ]_vars

\* the second of two ReconcileRS calls for the final sync has returned true, the
\* first having deleted the claim
C34_Witness ==
    /\ last.op = "ReconcileRS" /\ last.runFinalSync /\ last.before # <<>>
    /\ last.final /\ last.nonNil /\ last.err = ""
    /\ "pvc" \in last.before[1].changed
    /\ ~pvc[last.d.name].exists

\* C35: a ReconcileRS call issues a delete of the claim only when runFinalSync is true,
\* the claim was not in use, and the status of the RS has a set, non-zero last sync
\* time and the final-sync token as its last manual sync; a call with runFinalSync
\* false neither deletes the claim nor looks for it or for its pods; and a call returns
\* true only when runFinalSync is true
C35_DeleteOnlyOnFinalSync ==
    [][ last'.op = "ReconcileRS"
        => /\ ((\E i \in DOMAIN last'.log : last'.log[i] = <<"delete", "pvc", last'.d.name>>)
                 \/ pvc'[last'.d.name] # pvc[last'.d.name])
               => /\ last'.runFinalSync
                  /\ ~(pvc[last'.d.name].exists /\ pods[last'.d.name] > 0)
                  /\ rs'[last'.d.name].exists
                  /\ rs'[last'.d.name].status.present
                  /\ rs'[last'.d.name].status.lastSyncTime = "set"
                  /\ rs'[last'.d.name].status.lastManualSync = "vrg-final-sync"
           /\ ~last'.runFinalSync
               => /\ pvc' = pvc
                  /\ \A i \in DOMAIN last'.log :
                        /\ last'.log[i][2] # "pvc"
                        /\ last'.log[i][2] # "pod"
           /\ last'.final => last'.runFinalSync
           /\ \A m \in Volumes : m # last'.d.name => pvc'[m] = pvc[m] ]_vars

\* a ReconcileRS call with runFinalSync has ended with the delete of the claim, no pod
\* using it, and returned the RS whose status reports a sync and the token
C35_Witness ==
    /\ last.op = "ReconcileRS" /\ last.runFinalSync /\ last.final /\ last.err = ""
    /\ last.log[Len(last.log)] = <<"delete", "pvc", last.d.name>>
    /\ ~pvc[last.d.name].exists /\ pods[last.d.name] = 0
    /\ last.obj.status.lastSyncTime = "set"
    /\ last.obj.status.lastManualSync = "vrg-final-sync"

\* C36: a ReconcileRS call with runFinalSync returns true and deletes the claim only if
\* a manual sync completed after the final-sync trigger was set: a call made while the
\* RS does not carry the final-sync trigger, which the call itself is the first to set,
\* does not return true and deletes nothing, whatever echo an earlier final sync left
\* in the status
C36_NoStaleCompletion ==
    [][ (/\ last'.op = "ReconcileRS" /\ last'.runFinalSync
         /\ rs[last'.d.name].spec.trigger.manual # "vrg-final-sync")
        => /\ ~last'.final
           /\ pvc' = pvc
           /\ \A i \in DOMAIN last'.log : last'.log[i] # <<"delete", "pvc", last'.d.name>>
      ]_vars

\* ------------------------------------------------------------------------
\* The final sync, re-invoked until it completes
\* ------------------------------------------------------------------------
\* the descriptors of the volume whose final sync is asked for
FinalSyncDescriptors == {Descriptor(n, TRUE, "sc1", <<>>) : n \in Protected}

\* the owner's secret is in place; the claim may exist and pods may be using it
InitFinalSync ==
    /\ secret = [o \in Owners |-> IF o \in Callers THEN [exists |-> TRUE, ownerRefs |-> {}]
                                                   ELSE NoSecret]
    /\ rs = [n \in Volumes |-> NoRS]
    /\ rd = [n \in Volumes |-> NoRD]
    /\ se = [n \in Volumes |-> NoSE]
    /\ pvc \in [Volumes -> {NoPVC, FreshPVC}]
    /\ \A n \in Volumes : n \notin Protected => pvc[n] = NoPVC
    /\ pods \in [Volumes -> 0..MaxPods]
    /\ \A n \in Volumes : n \notin Protected => pods[n] = 0
    /\ snap = [s \in Snapshots |-> NoSnapshot]
    /\ handler = [o \in Owners |-> NewVSHandler(SchedulingInterval)]
    /\ last = NoCall
    /\ drpolicies = [p \in PolicyNames |-> NoDRPolicy]
    /\ drpcs = [x \in DRPCNames |-> NoDRPC]

\* the caller asks for the final sync and every operation of the call succeeds
FinalSyncCall ==
    /\ Idle
    /\ \E o \in Callers, d \in FinalSyncDescriptors :
         \E r \in {ReconcileRS(NewCtx(World, handler[o], {}), o, d, TRUE)} :
            Commit(r, "ReconcileRS", o, d, TRUE)

\* the caller asks for the final sync and one operation of the call fails
FinalSyncCallFails ==
    /\ Idle
    /\ \E o \in Callers, d \in FinalSyncDescriptors :
         LET Run(f) == ReconcileRS(NewCtx(World, handler[o], f), o, d, TRUE)
         IN \E r0 \in {Run({})} :
              \E f \in WithEndingFault({}, r0.c.log, {}) \ {{}} :
                 \E r \in {Run(f)} : Commit(r, "ReconcileRS", o, d, TRUE)

NextFinalSync ==
    \/ FinalSyncCall
    \/ FinalSyncCallFails
    \/ PodStops
    \/ TransportSeesRS
    \/ TransportSyncsRS
    \/ TakeResult

\* the caller takes each result and calls again; calls without a failing operation
\* keep coming; pods stop; the transport reconciles and syncs the RS
SpecFinalSync ==
    /\ InitFinalSync
    /\ [][NextFinalSync]_vars
    /\ WF_vars(TakeResult)
    /\ SF_vars(FinalSyncCall)
    /\ SF_vars(PodStops)
    /\ SF_vars(TransportSeesRS)
    /\ SF_vars(TransportSyncsRS)

\* C37: when the caller keeps calling ReconcileRS with runFinalSync for a volume, the
\* secret in place, calls in which no operation fails keep coming, the pods of the
\* claim stop, and the transport gives the RS a status, syncs it and echoes its manual
\* trigger, a call eventually returns (true, RS, nil) with the claim deleted; each
\* call is one step that returns
C37_FinalSyncEventuallyCompletes ==
    <>(/\ last.op = "ReconcileRS" /\ last.runFinalSync
       /\ last.final /\ last.nonNil /\ last.err = ""
       /\ last.obj.status.lastManualSync = "vrg-final-sync"
       /\ ~pvc[last.d.name].exists)

\* the final sync has completed after calls that failed and calls that waited: the
\* call that returned true found the RS it returns already on the cluster
C37_Witness ==
    /\ last.op = "ReconcileRS" /\ last.runFinalSync
    /\ last.final /\ last.nonNil /\ last.err = "" /\ last.failed = {}
    /\ last.log[Len(last.log)] = <<"delete", "pvc", last.d.name>>
    /\ \A i \in DOMAIN last.log : last.log[i][1] \notin {"create", "update"}
    /\ ~pvc[last.d.name].exists

\* ------------------------------------------------------------------------
\* The handoff from source to destination, re-invoked until the RD is ready
\* ------------------------------------------------------------------------
\* the cluster after owner o, its secret in place, has reconciled the RS of volume n
SourceSide(o, n) ==
    LET w0 == [secret |-> [x \in Owners |-> IF x = o THEN [exists |-> TRUE, ownerRefs |-> {}]
                                                     ELSE NoSecret],
               rs |-> [m \in Volumes |-> NoRS],
               rd |-> [m \in Volumes |-> NoRD],
               se |-> [m \in Volumes |-> NoSE],
               pvc |-> [m \in Volumes |-> IF m = n THEN FreshPVC ELSE NoPVC],
               pods |-> [m \in Volumes |-> 0],
               snap |-> [s \in Snapshots |-> NoSnapshot]]
    IN ReconcileRS(NewCtx(w0, NewVSHandler(SchedulingInterval), {}), o,
                   Descriptor(n, TRUE, "sc1", <<>>), FALSE).c

\* an RS of the owner exists for the volume, synced or not yet
InitHandoff ==
    \E o \in Callers, n \in Protected, synced \in BOOLEAN :
       \E c \in {SourceSide(o, n)} :
          /\ secret = c.w.secret
          /\ rs = IF synced
                  THEN [c.w.rs EXCEPT ![n].status =
                          [present |-> TRUE, lastSyncTime |-> "set", lastManualSync |-> ""]]
                  ELSE c.w.rs
          /\ rd = c.w.rd
          /\ se = c.w.se
          /\ pvc = c.w.pvc
          /\ pods = c.w.pods
          /\ snap = c.w.snap
          /\ handler = [x \in Owners |-> IF x = o THEN c.h ELSE NewVSHandler(SchedulingInterval)]
          /\ last = NoCall
          /\ drpolicies = [p \in PolicyNames |-> NoDRPolicy]
          /\ drpcs = [x \in DRPCNames |-> NoDRPC]

HandoffDescriptors == {Descriptor(n, TRUE, "sc1", <<>>) : n \in Protected}

\* the caller reconciles the RD of the volume and every operation of the call succeeds
HandoffCall ==
    /\ Idle
    /\ \E o \in Callers, d \in HandoffDescriptors :
         \E r \in {ReconcileRD(NewCtx(World, handler[o], {}), o, d)} :
            Commit(r, "ReconcileRD", o, d, FALSE)

\* the caller reconciles the RD of the volume and one operation of the call fails
HandoffCallFails ==
    /\ Idle
    /\ \E o \in Callers, d \in HandoffDescriptors :
         LET Run(f) == ReconcileRD(NewCtx(World, handler[o], f), o, d)
         IN \E r0 \in {Run({})} :
              \E f \in WithEndingFault({}, r0.c.log, {}) \ {{}} :
                 \E r \in {Run(f)} : Commit(r, "ReconcileRD", o, d, FALSE)

\* the transport assigns the address of an RD
TransportAssignsAddress ==
    /\ Idle
    /\ \E n \in Protected :
      /\ rd[n].exists /\ ~rd[n].status.address
      /\ rd' = [rd EXCEPT ![n].status.present = TRUE, ![n].status.address = TRUE]
      /\ UNCHANGED <<drpolicies, drpcs, secret, rs, se, pvc, pods, snap, handler, last>>

\* the transport completes a sync of an RD: it takes a snapshot and reports it as the
\* latest image
TransportSyncsRD ==
    /\ Idle
    /\ \E n \in Protected :
      /\ rd[n].exists /\ rd[n].status.latestImage.nil
      /\ snap' = [snap EXCEPT !["snap1"] = [NoSnapshot EXCEPT !.exists = TRUE]]
      /\ rd' = [rd EXCEPT ![n].status.present = TRUE,
                          ![n].status.latestImage =
                              [nil |-> FALSE, apiGroup |-> "", kind |-> VolumeSnapshotKind,
                               name |-> "snap1"]]
      /\ UNCHANGED <<drpolicies, drpcs, secret, rs, se, pvc, pods, handler, last>>

NextHandoff ==
    \/ HandoffCall
    \/ HandoffCallFails
    \/ TransportAssignsAddress
    \/ TransportSyncsRD
    \/ TakeResult

\* the caller takes each result and calls again; calls without a failing operation
\* keep coming; the transport assigns the address and reports a snapshot
SpecHandoff ==
    /\ InitHandoff
    /\ [][NextHandoff]_vars
    /\ WF_vars(TakeResult)
    /\ SF_vars(HandoffCall)
    /\ SF_vars(TransportAssignsAddress)
    /\ SF_vars(TransportSyncsRD)

\* the part of C38 that is about progress: a ReconcileRD call eventually returns a
\* non-nil RD and no error
HandoffEventuallyReady ==
    <>(last.op = "ReconcileRD" /\ last.nonNil /\ last.err = "")

\* C38: starting with an RS of the volume, when the caller keeps calling ReconcileRD,
\* the secret in place, calls in which no operation fails keep coming and the transport
\* assigns an address and a VolumeSnapshot latest image to the RD, a call eventually
\* returns a non-nil RD, and whenever a call has returned a non-nil RD and no error no
\* RS of the volume exists
C38_HandoffYieldsReadyDestination ==
    /\ <>(last.op = "ReconcileRD" /\ last.nonNil /\ last.err = "")
    /\ [](last.op = "ReconcileRD" /\ last.nonNil /\ last.err = ""
            => ~rs[last.d.name].exists)

\* ------------------------------------------------------------------------
\* DRPolicy: conflicts between policies
\* ------------------------------------------------------------------------
\* sets.NewString(list...): the set of the members of a list
NewString(list) == {list[i] : i \in DOMAIN list}

\* util.DRPolicyClusterNames: the cluster names of the policy's spec
DRPolicyClusterNames(drpolicy) == drpolicy.drClusters

\* dRPolicySupportsMetro: whether the policy has a group of clusters it replicates
\* synchronously within, and the groups
dRPolicySupportsMetro(drpolicy) ==
    [supportsMetro |-> Len(drpolicy.metro) > 0, metroClusters |-> drpolicy.metro]

\* whether one of the groups shares a member with the common clusters
AnyGroupHasAny(groups, commonClusters) ==
    \E i \in DOMAIN groups : NewString(groups[i]) \cap commonClusters # {}


\* haveOverlappingMetroZones that looks at the groups of the other policy only
haveOverlappingMetroZones_OtherOnly(d1, d2) ==
    LET d1ClusterNames == NewString(DRPolicyClusterNames(d1))
        d2ClusterNames == NewString(DRPolicyClusterNames(d2))
        d2Metro == dRPolicySupportsMetro(d2)
        commonClusters == d1ClusterNames \cap d2ClusterNames
    IN IF Cardinality(commonClusters) = 0 THEN FALSE
       ELSE IF d2Metro.supportsMetro /\ AnyGroupHasAny(d2Metro.metroClusters, commonClusters)
       THEN TRUE
       ELSE FALSE

haveOverlappingMetroZones(d1, d2) ==
    LET d1ClusterNames == NewString(DRPolicyClusterNames(d1))
        d1Metro == dRPolicySupportsMetro(d1)
        d2ClusterNames == NewString(DRPolicyClusterNames(d2))
        d2Metro == dRPolicySupportsMetro(d2)
        commonClusters == d1ClusterNames \cap d2ClusterNames
    IN IF Cardinality(commonClusters) = 0 THEN FALSE
       ELSE IF d2Metro.supportsMetro /\ AnyGroupHasAny(d2Metro.metroClusters, commonClusters)
       THEN TRUE
       ELSE IF d1Metro.supportsMetro /\ AnyGroupHasAny(d1Metro.metroClusters, commonClusters)
       THEN TRUE
       ELSE FALSE

\* the policies of the hub as a list: each with its name, in the order of the listing
PolicyOrder == <<"dp1", "dp2", "dp3">>

GetAllDRPolicies(policies) ==
    LET all == [i \in DOMAIN PolicyOrder |->
                  [name |-> PolicyOrder[i], object |-> policies[PolicyOrder[i]]]]
    IN SelectSeq(all, LAMBDA item : item.object.exists)


\* [err, with]: the loop over list.Items from item i on; with is the policy the error
\* names
RECURSIVE hasConflictingDRPolicy(_, _, _, _)
hasConflictingDRPolicy(matchName, match, list, i) ==
    IF i > Len(list) THEN [err |-> "", with |-> ""]
    ELSE IF list[i].name = matchName
    THEN hasConflictingDRPolicy(matchName, match, list, i + 1)
    ELSE IF haveOverlappingMetroZones(match, list[i].object)
    THEN [err |-> "drpolicy has overlapping clusters with another drpolicy",
          with |-> list[i].name]
    ELSE hasConflictingDRPolicy(matchName, match, list, i + 1)

ClusterNames == {"e1", "e2", "w1"}

\* lists of distinct cluster names of length n
ClusterLists(n) ==
    {l \in [1..n -> ClusterNames] : \A i, j \in 1..n : i # j => l[i] # l[j]}

\* the policies a user can have made: two or more clusters, and no group or one group
\* of two of them
PolicyObjects ==
    {[NoDRPolicy EXCEPT !.exists = TRUE, !.finalizer = TRUE, !.deployed = TRUE,
                        !.drClusters = l, !.metro = m] :
        l \in UNION {ClusterLists(n) : n \in 2..Cardinality(ClusterNames)},
        m \in {<<>>} \cup {<<g>> : g \in ClusterLists(2)}}

\* whether the groups of the policy are groups of its own clusters, in the order of
\* its list
OwnGroups(p) ==
    \A g \in DOMAIN p.metro :
       \E i, j \in DOMAIN p.drClusters :
          i < j /\ p.metro[g] = <<p.drClusters[i], p.drClusters[j]>>

InitPolicies ==
    /\ secret = [o \in Owners |-> NoSecret]
    /\ rs = [n \in Volumes |-> NoRS]
    /\ rd = [n \in Volumes |-> NoRD]
    /\ se = [n \in Volumes |-> NoSE]
    /\ pvc = [n \in Volumes |-> NoPVC]
    /\ pods = [n \in Volumes |-> 0]
    /\ snap = [s \in Snapshots |-> NoSnapshot]
    /\ handler = [o \in Owners |-> NewVSHandler(SchedulingInterval)]
    /\ last = NoCall
    /\ drpolicies \in [PolicyNames -> {NoDRPolicy} \cup {p \in PolicyObjects : OwnGroups(p)}]
    /\ drpolicies["dp1"].exists
    /\ drpcs = [x \in DRPCNames |-> NoDRPC]

\* validatePolicyConflicts calls hasConflictingDRPolicy for a policy with the list of
\* all the policies: the policy is recorded as owner, the error as err, the policy the
\* error names as list
CallHasConflictingDRPolicy ==
    /\ Idle
    /\ \E p \in PolicyNames :
         /\ drpolicies[p].exists
         /\ \E r \in {hasConflictingDRPolicy(p, drpolicies[p],
                                             GetAllDRPolicies(drpolicies), 1)} :
              last' = [NoCall EXCEPT !.op = "hasConflictingDRPolicy", !.owner = p,
                                     !.err = r.err, !.list = <<r.with>>]
    /\ UNCHANGED <<drpolicies, drpcs, secret, rs, rd, se, pvc, pods, snap, handler>>

NextPolicies ==
    \/ CallHasConflictingDRPolicy
    \/ TakeResult

SpecPolicies == InitPolicies /\ [][NextPolicies]_vars

\* whether policies p and q of the hub share a cluster that is in a group of either
SharedMetroCluster(p, q) ==
    \E i \in DOMAIN drpolicies[p].drClusters, j \in DOMAIN drpolicies[q].drClusters :
       /\ drpolicies[p].drClusters[i] = drpolicies[q].drClusters[j]
       /\ \E x \in {p, q} :
             \E g \in DOMAIN drpolicies[x].metro :
                \E k \in DOMAIN drpolicies[x].metro[g] :
                   drpolicies[x].metro[g][k] = drpolicies[p].drClusters[i]

Hub == [drpolicies |-> drpolicies, drpcs |-> drpcs]

\* the DRPlacementControls of the hub, in the order of the listing
DRPCOrder == <<"drpc1", "drpc2">>

\* the loop of deleteDRPolicy over drpcs.Items from item i on: the name of the first
\* DRPlacementControl that references the policy, "" when none does
RECURSIVE ReferencedBy(_, _, _)
ReferencedBy(w, name, i) ==
    IF i > Len(DRPCOrder) THEN ""
    ELSE IF w.drpcs[DRPCOrder[i]].exists /\ w.drpcs[DRPCOrder[i]].drPolicyRef = name
    THEN DRPCOrder[i]
    ELSE ReferencedBy(w, name, i + 1)

\* drPolicyUndeploy: the secrets of the policy are taken off its clusters
drPolicyUndeploy(c, name) ==
    LET undeploy == <<"undeploy", "drpolicy", name>>
        c1 == Issue(c, undeploy)
    IN IF Fails(c, undeploy) THEN Err(c1, "drpolicy undeploy")
       ELSE [c1 EXCEPT !.w.drpolicies[name].deployed = FALSE]

\* finalizerRemove: the update that removes the finalizer; the hub then removes a
\* policy that is marked for deletion and has no finalizer left
finalizerRemove(c, name) ==
    LET update == <<"update", "drpolicy", name>>
        c1 == Issue(c, update)
    IN IF Fails(c, update) THEN Err(c1, "finalizer remove update")
       ELSE IF c.w.drpolicies[name].deleted
       THEN [c1 EXCEPT !.w.drpolicies[name] = NoDRPolicy]
       ELSE [c1 EXCEPT !.w.drpolicies[name].finalizer = FALSE]


\* deleteDRPolicy that undeploys before it looks for references
deleteDRPolicy_UndeployFirst(c, name) ==
    LET list == <<"list", "drpc", "">>
        c0 == drPolicyUndeploy(c, name)
        c1 == Issue(c0, list)
        ref == ReferencedBy(c.w, name, 1)
    IN IF c0.err # "" THEN c0
       ELSE IF Fails(c0, list) THEN Err(c1, "drpcs list")
       ELSE IF ref # "" THEN Err(c1, "this drpolicy is referenced in existing drpc resource")
       ELSE finalizerRemove(c1, name)

deleteDRPolicy(c, name) ==
    LET list == <<"list", "drpc", "">>
        c1 == Issue(c, list)
        ref == ReferencedBy(c.w, name, 1)
        c2 == drPolicyUndeploy(c1, name)
    IN IF Fails(c, list) THEN Err(c1, "drpcs list")
       ELSE IF ref # "" THEN Err(c1, "this drpolicy is referenced in existing drpc resource")
       ELSE IF c2.err # "" THEN c2
       ELSE finalizerRemove(c2, name)

\* addLabelsAndFinalizers: the update that adds the finalizer
addLabelsAndFinalizers(c, name) ==
    LET update == <<"update", "drpolicy", name>>
        c1 == Issue(c, update)
    IN IF Fails(c, update) THEN Err(c1, "finalizer add update")
       ELSE [c1 EXCEPT !.w.drpolicies[name].finalizer = TRUE]

\* propagateS3Secret: the secrets of the policy are put on its clusters
propagateS3Secret(c, name) ==
    LET deploy == <<"deploy", "drpolicy", name>>
        c1 == Issue(c, deploy)
    IN IF Fails(c, deploy) THEN Err(c1, "drpolicy deploy")
       ELSE [c1 EXCEPT !.w.drpolicies[name].deployed = TRUE]

\* DRPolicyReconciler.reconcile
reconcile(c, name) ==
    LET c1 == propagateS3Secret(c, name)
        conflict == hasConflictingDRPolicy(name, c1.w.drpolicies[name],
                                           GetAllDRPolicies(c1.w.drpolicies), 1)
    IN IF c1.err # "" THEN c1
       ELSE IF conflict.err # "" THEN Err(c1, "drpolicy conflict validate failed")
       ELSE c1

\* DRPolicyReconciler.Reconcile of the request for the policy of that name
Reconcile(c, name) ==
    LET get == <<"get", "drpolicy", name>>
        cm == <<"get", "configmap", "">>
        drcl == <<"list", "drcluster", "">>
        c1 == Issue(c, get)
        c2 == Issue(c1, cm)
        c3 == Issue(c2, drcl)
        drpolicy == c.w.drpolicies[name]
        c4 == addLabelsAndFinalizers(c3, name)
    IN IF Fails(c, get) THEN Err(c1, "get")
       ELSE IF ~drpolicy.exists THEN c1
       ELSE IF Fails(c1, cm) THEN Err(c2, "config map get")
       ELSE IF Fails(c2, drcl) THEN Err(c3, "drclusters details")
       ELSE IF drpolicy.deleted /\ drpolicy.finalizer THEN deleteDRPolicy(c3, name)
       ELSE IF c4.err # "" THEN c4
       ELSE reconcile(c4, name)

\* the policies a user makes in SpecDeletion
UserPolicies ==
    {[NoDRPolicy EXCEPT !.exists = TRUE, !.drClusters = l, !.metro = <<>>] :
        l \in {<<"e1", "w1">>, <<"e2", "w1">>}}

\* the reconciler takes a request for a policy name; at most one operation fails
CallReconcile ==
    /\ Idle
    /\ \E p \in PolicyNames :
         LET Run(f) == Reconcile([w |-> Hub, log |-> <<>>, err |-> "", f |-> f], p)
         IN \E r0 \in {Run({})} :
              \E f \in WithEndingFault({}, r0.log, {}) :
                 \E r \in {Run(f)} :
                    /\ drpolicies' = r.w.drpolicies
                    /\ drpcs' = r.w.drpcs
                    /\ last' = [NoCall EXCEPT !.op = "Reconcile", !.owner = p, !.err = r.err,
                                              !.log = r.log, !.failed = Failed(r)]
    /\ UNCHANGED <<secret, rs, rd, se, pvc, pods, snap, handler>>

\* a user creates a policy
PolicyCreated ==
    /\ Idle
    /\ \E p \in PolicyNames, o \in UserPolicies :
         /\ ~drpolicies[p].exists
         /\ drpolicies' = [drpolicies EXCEPT ![p] = o]
    /\ UNCHANGED <<drpcs, secret, rs, rd, se, pvc, pods, snap, handler, last>>

\* a user deletes a policy: with a finalizer on it the hub only marks it
PolicyDeleted ==
    /\ Idle
    /\ \E p \in PolicyNames :
         /\ drpolicies[p].exists /\ ~drpolicies[p].deleted
         /\ drpolicies' = [drpolicies EXCEPT ![p] =
                             IF @.finalizer THEN [@ EXCEPT !.deleted = TRUE] ELSE NoDRPolicy]
    /\ UNCHANGED <<drpcs, secret, rs, rd, se, pvc, pods, snap, handler, last>>

\* a user creates a DRPlacementControl that names a policy, or deletes one
DRPCCreated ==
    /\ Idle
    /\ \E x \in DRPCNames, p \in PolicyNames :
         /\ ~drpcs[x].exists
         /\ drpcs' = [drpcs EXCEPT ![x] = [exists |-> TRUE, drPolicyRef |-> p]]
    /\ UNCHANGED <<drpolicies, secret, rs, rd, se, pvc, pods, snap, handler, last>>

DRPCDeleted ==
    /\ Idle
    /\ \E x \in DRPCNames :
         /\ drpcs[x].exists
         /\ drpcs' = [drpcs EXCEPT ![x] = NoDRPC]
    /\ UNCHANGED <<drpolicies, secret, rs, rd, se, pvc, pods, snap, handler, last>>

NextDeletion ==
    \/ CallReconcile
    \/ PolicyCreated
    \/ PolicyDeleted
    \/ DRPCCreated
    \/ DRPCDeleted
    \/ TakeResult

SpecDeletion == Init /\ [][NextDeletion]_vars

\* C40: a reconcile of a policy that is marked for deletion and has the finalizer,
\* made while a DRPlacementControl names the policy, returns an error, issues no
\* undeploy and no update, and leaves the policy as it was; and a reconcile removes
\* the finalizer of such a policy only when no DRPlacementControl names it and the
\* undeploy it issued before the update did not fail
C40_DeletionGuard ==
    [][ (/\ last'.op = "Reconcile"
         /\ drpolicies[last'.owner].exists
         /\ drpolicies[last'.owner].deleted
         /\ drpolicies[last'.owner].finalizer)
        => /\ (\E x \in DRPCNames : drpcs[x].exists /\ drpcs[x].drPolicyRef = last'.owner)
              => /\ last'.err # ""
                 /\ drpolicies' = drpolicies
                 /\ \A i \in DOMAIN last'.log : last'.log[i][1] \notin {"undeploy", "update"}
           /\ (\/ ~drpolicies'[last'.owner].finalizer
               \/ \E i \in DOMAIN last'.log : last'.log[i] = <<"update", "drpolicy", last'.owner>>)
              => /\ \A x \in DRPCNames :
                       ~(drpcs[x].exists /\ drpcs[x].drPolicyRef = last'.owner)
                 /\ \E i, j \in DOMAIN last'.log :
                       /\ i < j
                       /\ last'.log[i] = <<"undeploy", "drpolicy", last'.owner>>
                       /\ last'.log[j] = <<"update", "drpolicy", last'.owner>>
                 /\ <<"undeploy", "drpolicy", last'.owner>> \notin last'.failed
      ]_vars

\* a reconcile of a policy marked for deletion has returned the error about the
\* reference while a DRPlacementControl names the policy, which keeps its finalizer
C40_Witness ==
    /\ last.op = "Reconcile"
    /\ last.err = "this drpolicy is referenced in existing drpc resource"
    /\ last.failed = {}
    /\ drpolicies[last.owner].deleted /\ drpolicies[last.owner].finalizer
    /\ drpolicies[last.owner].deployed
    /\ \E x \in DRPCNames : drpcs[x].exists /\ drpcs[x].drPolicyRef = last.owner

====
